---------------------------- MODULE Spec2Model ----------------------------
(***************************************************************************)
(* A model of the analytical core of padua: analysis.correlation,          *)
(* analysis.pca, visualize.pca, visualize.volcano (with                    *)
(* calculate_s0_curve) and visualize.hierarchical (with its inner          *)
(* optimize_clusters).                                                     *)
(*                                                                         *)
(* Numbers.  The code works on floats; the model works on exact integers   *)
(* and rationals over fixed grids:                                         *)
(*   - a table cell is NaN or Num(v), v an integer;                        *)
(*   - a group mean is kept as MeanScale * mean, an integer;               *)
(*   - an effect size (dr, minratio, maxratio, a curve point) is kept in   *)
(*     units of 1/RatioScale, RatioScale = CurveSteps * MeanScale, so that *)
(*     curve_interval = 1/CurveSteps is MeanScale units;                   *)
(*   - a p-value is NaN or Num(k), standing for p = 2^-k, so that          *)
(*     -log10(p) = k * log10(2); p <= q is k_p >= k_q;                     *)
(*   - s0 is kept in units of log10(2) / RatioScale;                       *)
(*   - a curve value y = 10^(-s0/(x - minratio) - mminpval) is kept as the *)
(*     rational -log10(y)/log10(2) = num/den.                              *)
(* Float rounding is not modelled.                                         *)
(***************************************************************************)
EXTENDS Integers, Sequences, FiniteSets, TLC

VARIABLES
    data,       \* the caller's table
    args,       \* the parameters of the call in progress
    inner,      \* visualize.pca: the parameters analysis.pca is entered with
    pc,         \* position inside the operation in progress
    df,         \* the operation's working copy (df = df.copy())
    dr,         \* volcano: effect size per feature
    ginv,       \* volcano: features with too few valid values
    p,          \* volcano: p-value (or q-value) per feature
    s0x,        \* volcano: the sample points of the s0 curve (an arange)
    FILTER_IN,  \* volcano: inclusion flag per feature
    warned,     \* volcano: warnings.warn has been called
    scores,     \* pca: scores frame
    weights,    \* pca: weights frame
    cdf,        \* correlation: the returned frame
    row_clusters, col_clusters,   \* hierarchical: linkage matrices
    row_denD, col_denD,           \* hierarchical: dendrogram leaf orders
    opt,        \* hierarchical: the locals of optimize_clusters
    edges,      \* hierarchical: the edges value
    palette,    \* scipy's link colour palette, a global of sch
    history,    \* a caller's session: the calls made and what they gave
    lib,        \* a caller's session: what the libraries gave for an input
    mask,       \* filters: the boolean row mask
    dft,        \* filters.search: df.reset_index()
    levels,     \* filters.minimum_valid_values_in_any_group: levels
    idx,        \* filters.search: the names the loop has still to visit
    result      \* what the operation returned (or that it raised)

vars == <<data, args, inner, pc, df, dr, ginv, p, s0x, FILTER_IN, warned, scores,
          weights,
          cdf, row_clusters, col_clusters, row_denD, col_denD, opt, edges,
          palette, history, lib, mask, dft, levels, idx, result>>

-----------------------------------------------------------------------------
(* Values *)

\* numpy.nan: the missing marker, distinct from every number (also from 0).
NaN == <<>>

Num(v) == <<v>>

IsNaN(c) == c = NaN

Val(c) == c[1]

\* Python None / an unset local.
None == "None"

Unset == "unset"

Abs(v) == IF v < 0 THEN -v ELSE v

Max2(a, b) == IF a >= b THEN a ELSE b

RECURSIVE Factorial(_)
Factorial(n) == IF n <= 1 THEN 1 ELSE n * Factorial(n - 1)

RECURSIVE Pow2(_)
Pow2(n) == IF n <= 0 THEN 1 ELSE 2 * Pow2(n - 1)

Idx(n) == [i \in 1..n |-> i]

-----------------------------------------------------------------------------
(* Tables: a pandas DataFrame is its two label axes and its cells. *)

Frame(index, columns, values) ==
    [index |-> index, columns |-> columns, values |-> values]

NRows(t) == Len(t.index)

NCols(t) == Len(t.columns)

\* df[g].values: the cells of the columns whose Group label is g, row by row.
GroupValues(t, g) ==
    LET cols == SelectSeq(Idx(NCols(t)), LAMBDA j : t.columns[j][1] = g)
    IN  [r \in 1..NRows(t) |-> [c \in 1..Len(cols) |-> t.values[r][cols[c]]]]

-----------------------------------------------------------------------------
(* visualize.volcano: numeric helpers *)

\* The replicate labels of each sample group.
Replicates == <<1, 2>>

NReps == Len(Replicates)

\* Every group mean is a multiple of 1/MeanScale (a count divides MeanScale).
MeanScale == Factorial(NReps)

\* 1 / curve_interval, for the curve_interval volcano passes.
CurveSteps == 1000

RatioScale == CurveSteps * MeanScale

\* curve_interval in effect-size units.
CurveInterval == RatioScale \div CurveSteps

RECURSIVE NanSum(_)
NanSum(s) ==
    IF s = <<>> THEN 0
    ELSE (IF IsNaN(Head(s)) THEN 0 ELSE Val(Head(s))) + NanSum(Tail(s))

\* (~np.isnan(g)).sum(axis=1), for one row.
ValidCount(s) == Cardinality({j \in DOMAIN s : ~IsNaN(s[j])})

\* A mean that counts a missing cell of a row as 0 (NaN for an empty row).
ZeroFilledMean(s) ==
    IF ValidCount(s) = 0 THEN NaN
    ELSE Num((NanSum(s) * MeanScale) \div Len(s))

\* np.nanmean(g, axis=1), for one row: MeanScale * mean of the valid cells,
\* NaN when no cell is valid.
NanMean(s) ==
    IF ValidCount(s) = 0 THEN NaN
    ELSE Num((NanSum(s) * MeanScale) \div ValidCount(s))

RECURSIVE FloorLog2(_, _)
FloorLog2(n, d) == IF 2 * d <= n THEN 1 + FloorLog2(n, 2 * d) ELSE 0

\* np.log2(n / d) for n, d > 0, in effect-size units, to whole powers of two
\* (truncated towards zero; exact whenever n/d is a power of two).
Log2Ratio(n, d) ==
    IF n >= d THEN FloorLog2(n, d) * RatioScale
    ELSE -(FloorLog2(d, n) * RatioScale)

\* Lines 488-491, for one feature: nanmean(g2) - nanmean(g1) when the data
\* is log2 already, else log2(nanmean(g2) / nanmean(g1)), which is NaN for a
\* negative quotient.  No group mean is 0 in a table of the model that is
\* not log2 (a zero mean gives an infinite or NaN effect size).
Ratio(g1, g2, is_log2) ==
    LET m1 == NanMean(g1)
        m2 == NanMean(g2)
    IN  IF IsNaN(m1) \/ IsNaN(m2) THEN NaN
        ELSE IF is_log2 THEN Num((Val(m2) - Val(m1)) * CurveSteps)
        ELSE IF Val(m2) * Val(m1) < 0 THEN NaN
        ELSE Num(Log2Ratio(Abs(Val(m2)), Abs(Val(m1))))

\* Line 503, for one feature: nanmean(g1), in effect-size units.
OneGroupMean(g1) ==
    IF IsNaN(NanMean(g1)) THEN NaN ELSE Num(Val(NanMean(g1)) * CurveSteps)

\* Lines 493 and 505, for one feature (g2 is the empty row in one-group mode).
TooFewValid(g1, g2, has_b, n) ==
    \/ ValidCount(g1) < n
    \/ has_b /\ ValidCount(g2) < n

\* Line 514 left out: the t-test's p-values pass through as they are.
KeepP(praw, inv) == praw

\* Line 514 as a filter: the p-values of the features in ginv are removed.
DropP(praw, inv) ==
    SelectSeq([f \in DOMAIN praw |-> IF inv[f] THEN "dropped" ELSE praw[f]],
              LAMBDA v : v # "dropped")

\* Line 514: p[ginv] = np.nan.
MaskP(praw, inv) ==
    [f \in DOMAIN praw |-> IF inv[f] THEN NaN ELSE praw[f]]

\* Line 474: np.any(df.values < 0); a NaN is not below 0.
HasNegative(t) ==
    \E r \in DOMAIN t.values : \E c \in DOMAIN t.values[r] :
        ~IsNaN(t.values[r][c]) /\ Val(t.values[r][c]) < 0

\* Line 478: df.fillna(fillna), applied when fillna is truthy (line 477).
FillNa(t, fillna) ==
    IF IsNaN(fillna) \/ fillna = Num(0) THEN t
    ELSE [t EXCEPT !.values =
            [r \in DOMAIN t.values |->
                [c \in DOMAIN t.values[r] |->
                    IF IsNaN(t.values[r][c]) THEN fillna ELSE t.values[r][c]]]]

\* The valid entries of an array, as a set of numbers.
ValidVals(s) == {Val(s[f]) : f \in {g \in DOMAIN s : ~IsNaN(s[g])}}

SetMax(S) == CHOOSE m \in S : \A o \in S : o <= m

\* np.nanmax(np.abs(dr)): NaN when every entry is NaN.
NanMaxAbs(s) ==
    IF ValidVals(s) = {} THEN NaN
    ELSE Num(SetMax({Abs(v) : v \in ValidVals(s)}))

\* -log10(min(fdr/2, np.nanmin(p))) in units of log10(2): Python's min keeps
\* fdr/2 unless nanmin(p) is smaller, and a NaN is never smaller.
MMaxPval(fdr, pv) ==
    IF ValidVals(pv) = {} THEN fdr + 1
    ELSE IF SetMax(ValidVals(pv)) > fdr + 1 THEN SetMax(ValidVals(pv))
    ELSE fdr + 1

CeilDiv(a, b) == -((-a) \div b)

\* np.arange(start, stop, step) over rationals with denominator den:
\* the points (start + i * step * den) / den for i < len.
Arange(start, stop, den, step) ==
    [start |-> start, den |-> den, step |-> step,
     len |-> IF stop > start THEN CeilDiv(stop - start, step * den) ELSE 0]

-----------------------------------------------------------------------------
(* visualize.calculate_s0_curve and the selection loop of volcano *)

\* calculate_s0_curve(s0, minpval, maxpval, minratio, maxratio, curve_interval),
\* its x: mminpval and mmaxpval are -log10(minpval) and -log10(maxpval) in
\* units of log10(2).  ax0 and max_x are rationals over maxpval_adjust.
CalculateS0Curve(s0, mminpval, mmaxpval, minratio, maxratio, curve_interval) ==
    LET maxpval_adjust == mmaxpval - mminpval
        ax0         == s0 + maxpval_adjust * minratio
        edge_offset == (maxratio * maxpval_adjust - ax0)
                          % (curve_interval * maxpval_adjust)
        max_x       == maxratio * maxpval_adjust - edge_offset
    IN  IF max_x > ax0
        THEN Arange(ax0, max_x, maxpval_adjust, curve_interval)
        ELSE Arange(max_x, ax0, maxpval_adjust, curve_interval)

\* fn of calculate_s0_curve at x: y = 10 ** (-s0/(x - minratio) - mminpval),
\* kept as -log10(y)/log10(2) = num/den.  den = 0 stands for the two values a
\* zero divisor gives: y = 0 (s0 > 0) and NaN (s0 = 0, or x NaN); no p-value
\* of the model is at or below either.
S0Fn(s0, minratio, mminpval, x) ==
    IF IsNaN(x) THEN [num |-> 0, den |-> 0]
    ELSE [num |-> s0 + mminpval * (Val(x) - minratio),
          den |-> Val(x) - minratio]

\* y <= spy for a p-value y = 2^-k and a curve value spy.
LeCurve(y, spy) ==
    IF IsNaN(y) \/ spy.den = 0 THEN FALSE
    ELSE IF spy.den > 0 THEN Val(y) * spy.den >= spy.num
    ELSE Val(y) * spy.den <= spy.num

\* x < np.min(s0x): False for a NaN x.
BelowCurveStart(x, sx) ==
    ~IsNaN(x) /\ Val(x) * sx.den < sx.start

\* The loop body with a strict comparison against the start of the curve.
SelectStrict(x0, y, sx, s0, minratio, mminpval) ==
    LET x == IF IsNaN(x0) THEN NaN ELSE Num(Abs(Val(x0)))
    IN  IF sx.len = 0 \/ IsNaN(x) \/ Val(x) * sx.den <= sx.start THEN FALSE
        ELSE LeCurve(y, S0Fn(s0, minratio, mminpval, x))

\* The loop body without the test for an empty curve.
SelectOnEmpty(x0, y, sx, s0, minratio, mminpval) ==
    LET x == IF IsNaN(x0) THEN NaN ELSE Num(Abs(Val(x0)))
    IN  IF BelowCurveStart(x, sx) THEN FALSE
        ELSE LeCurve(y, S0Fn(s0, minratio, mminpval, x))

\* Lines 539-550, for one feature (x0, y) of zip(dr, p).
Select(x0, y, sx, s0, minratio, mminpval) ==
    LET x == IF IsNaN(x0) THEN NaN ELSE Num(Abs(Val(x0)))
    IN  IF sx.len = 0 \/ BelowCurveStart(x, sx) THEN FALSE
        ELSE LeCurve(y, S0Fn(s0, minratio, mminpval, x))

-----------------------------------------------------------------------------
(* visualize.volcano: the calls *)

MaxCell == 2

MaxK == 2

MaxMinN == 2

MaxS0 == 2

MaxEffect == 2

Cells == {NaN} \cup {Num(v) : v \in 1..MaxCell}

PVals == {NaN} \cup {Num(k) : k \in 0..MaxK}

GroupCols ==
    [j \in 1..(2 * NReps) |->
        IF j <= NReps THEN <<"A", Replicates[j]>>
        ELSE <<"B", Replicates[j - NReps]>>]

\* One-feature tables of positive intensities with any pattern of gaps.
StatsTables ==
    {Frame(<<"f1">>, GroupCols, <<row>>) : row \in [1..(2 * NReps) -> Cells]}

\* A feature whose group A is all 0 and whose group B is c, c + e, c + e, ...
CurveRow(c, e) ==
    [j \in 1..(2 * NReps) |->
        IF j <= NReps THEN Num(0)
        ELSE IF j = NReps + 1 THEN Num(c) ELSE Num(c + e)]

CurveRows ==
    {CurveRow(c, e) : c \in (-1)..MaxEffect, e \in 0..1}
        \cup {[j \in 1..(2 * NReps) |-> IF j <= NReps THEN Num(0) ELSE NaN]}

\* Two-feature tables of log2 data spanning a range of effect sizes.
CurveTables ==
    {Frame(<<"f1", "f2">>, GroupCols, <<r1, r2>>) :
        r1 \in CurveRows, r2 \in CurveRows}

\* s0 in units of log10(2)/RatioScale: 0, 1/2, 1, ... times log10(2).
S0Vals == {j * (RatioScale \div 2) : j \in 0..MaxS0}

\* args.fdr = k is fdr = 2^-k; args.threshold = t is threshold = 2^t;
\* args.fillna = NaN is fillna=None.
StatsArgs ==
    [a : {"A"}, b : {"B", None}, fdr : {1}, threshold : {0},
     minimum_sample_n : 0..MaxMinN, estimate_qvalues : BOOLEAN, s0 : {0},
     is_log2 : BOOLEAN, fillna : {NaN, Num(0), Num(1)}]

CurveArgs ==
    [a : {"A"}, b : {"B"}, fdr : {1, 2}, threshold : {0, 1},
     minimum_sample_n : {0}, estimate_qvalues : BOOLEAN, s0 : S0Vals,
     is_log2 : {TRUE}, fillna : {NaN}]

\* Rows of -1 and 2: values below zero, and no group mean is 0.
SignedRows == [1..(2 * NReps) -> {Num(-1), Num(2)}]

\* One- and two-feature tables with negative values.
SignedTables ==
    {Frame(<<"f1">>, GroupCols, <<r1>>) : r1 \in SignedRows}
        \cup {Frame(<<"f1", "f2">>, GroupCols, <<r1, r2>>) :
                 r1 \in SignedRows, r2 \in SignedRows}

SignedArgs ==
    [a : {"A"}, b : {"B"}, fdr : {1}, threshold : {0},
     minimum_sample_n : {0}, estimate_qvalues : {FALSE}, s0 : {0},
     is_log2 : BOOLEAN, fillna : {NaN}]

VolcanoCalls ==
    [data : StatsTables, args : StatsArgs]
        \cup [data : CurveTables, args : CurveArgs]
        \cup [data : SignedTables, args : SignedArgs]

-----------------------------------------------------------------------------
(* visualize.volcano: the steps *)

NoResult == [status |-> "none"]

Raised(what) == [status |-> "raised", error |-> what]

volcano_vars == <<dr, ginv, p, s0x, FILTER_IN, warned>>

pca_vars == <<scores, weights>>

session_vars == <<palette, history, lib>>

filter_vars == <<mask, dft, levels, idx>>

hier_vars == <<row_clusters, col_clusters, row_denD, col_denD, opt, edges>>

InitVolcano ==
    /\ \E c \in VolcanoCalls : data = c.data /\ args = c.args
    /\ inner = Unset
    /\ pc = "volcano"
    /\ df = Unset
    /\ dr = Unset /\ ginv = Unset /\ p = Unset /\ s0x = Unset
    /\ FILTER_IN = Unset
    /\ warned = FALSE
    /\ palette = Unset /\ history = Unset /\ lib = Unset /\ mask = Unset
    /\ dft = Unset /\ levels = Unset /\ idx = Unset
    /\ scores = Unset /\ weights = Unset /\ cdf = Unset
    /\ row_clusters = Unset /\ col_clusters = Unset
    /\ row_denD = Unset /\ col_denD = Unset /\ opt = Unset /\ edges = Unset
    /\ result = NoResult

\* Lines 472-478: the working copy, the warning about negative values in
\* data not said to be log2, and the NaN fill when fillna is truthy.
VolcanoCopy ==
    /\ pc = "volcano"
    /\ warned' = (HasNegative(data) /\ ~args.is_log2)
    /\ df' = FillNa(data, args.fillna)
    /\ pc' = "ratio"
    /\ UNCHANGED <<data, args, session_vars, filter_vars, inner, dr, ginv, p, s0x, FILTER_IN, pca_vars,
                   cdf, hier_vars, result>>

\* Lines 484-491 (two groups) and 502-503 (one group): dr of the table t
\* for the arguments a.
EffectSizes(t, a) ==
    LET g1 == GroupValues(t, a.a)
        g2 == IF a.b = None THEN [f \in 1..NRows(t) |-> <<>>]
              ELSE GroupValues(t, a.b)
    IN  [f \in 1..NRows(t) |->
            IF a.b = None THEN OneGroupMean(g1[f])
            ELSE Ratio(g1[f], g2[f], a.is_log2)]

\* Lines 493 and 505: ginv of the table t for the arguments a.
TooFew(t, a) ==
    LET g1 == GroupValues(t, a.a)
        g2 == IF a.b = None THEN [f \in 1..NRows(t) |-> <<>>]
              ELSE GroupValues(t, a.b)
    IN  [f \in 1..NRows(t) |->
            TooFewValid(g1[f], g2[f], a.b # None, a.minimum_sample_n)]

\* Lines 530-552 and 603 as a function of the effect sizes, the p-values
\* (or q-values) and the arguments: what volcano returns, or that it raises.
Classified(effects, pvals, a) ==
    LET maxratio == NanMaxAbs(effects)
    IN  IF IsNaN(maxratio) THEN Raised("ValueError")
        ELSE LET sx == CalculateS0Curve(a.s0, a.fdr, MMaxPval(a.fdr, pvals),
                                        a.threshold * RatioScale,
                                        Val(maxratio), CurveInterval)
             IN  [status |-> "returned", p |-> pvals, dr |-> effects,
                  FILTER_IN |->
                      [f \in DOMAIN effects |->
                          Select(effects[f], pvals[f], sx, a.s0,
                                 a.threshold * RatioScale, a.fdr)]]

\* Lines 484-493 (two groups) and 502-505 (one group): dr and ginv.
VolcanoRatio ==
    /\ pc = "ratio"
    /\ dr' = EffectSizes(df, args)
    /\ ginv' = TooFew(df, args)
    /\ pc' = "ttest"
    /\ UNCHANGED <<data, args, session_vars, filter_vars, inner, df, p, s0x, FILTER_IN, warned,
                   pca_vars, cdf, hier_vars, result>>

\* Lines 499/509, 511, 514: scipy's masked t-test gives each feature some
\* p-value (a NaN, or a number that for a degenerate row is whatever lay
\* under the mask), then p[ginv] = nan.
VolcanoTTest ==
    /\ pc = "ttest"
    /\ \E praw \in [1..NRows(df) -> PVals] : p' = MaskP(praw, ginv)
    /\ pc' = IF args.estimate_qvalues THEN "qvalues" ELSE "curve"
    /\ UNCHANGED <<data, args, session_vars, filter_vars, inner, df, dr, ginv, s0x, FILTER_IN, warned,
                   pca_vars, cdf, hier_vars, result>>

\* A q-value step that writes every place of p, the NaN ones too.
QValuesEverywhere(pv) == [DOMAIN pv -> PVals]

\* p[~np.isnan(p)] = qvalues(p[~np.isnan(p)]): whatever qvalues gives for
\* the valid p-values is stored in their places; a NaN stays where it is.
QValues(pv) ==
    {q \in [DOMAIN pv -> PVals] :
        \A f \in DOMAIN pv : IsNaN(pv[f]) => IsNaN(q[f])}

\* Lines 522-523: p[~np.isnan(p)] = qvalues(p[~np.isnan(p)]).
VolcanoQValues ==
    /\ pc = "qvalues"
    /\ p' \in QValues(p)
    /\ pc' = "curve"
    /\ UNCHANGED <<data, args, session_vars, filter_vars, inner, df, dr, ginv, s0x, FILTER_IN, warned,
                   pca_vars, cdf, hier_vars, result>>

\* Line 530: the s0 curve.  np.arange raises ValueError on a NaN bound,
\* which is what nanmax gives when every effect size is NaN.
VolcanoCurve ==
    /\ pc = "curve"
    /\ LET maxratio == NanMaxAbs(dr)
       IN  IF IsNaN(maxratio)
           THEN /\ result' = Raised("ValueError")
                /\ pc' = "done"
                /\ UNCHANGED s0x
           ELSE /\ s0x' = CalculateS0Curve(args.s0, args.fdr,
                              MMaxPval(args.fdr, p),
                              args.threshold * RatioScale, Val(maxratio),
                              CurveInterval)
                /\ pc' = "select"
                /\ UNCHANGED result
    /\ UNCHANGED <<data, args, session_vars, filter_vars, inner, df, dr, ginv, p, FILTER_IN, warned,
                   pca_vars, cdf, hier_vars>>

\* Lines 536-552 and the return of line 603.
VolcanoSelect ==
    /\ pc = "select"
    /\ FILTER_IN' = [f \in DOMAIN dr |->
                       Select(dr[f], p[f], s0x, args.s0,
                              args.threshold * RatioScale, args.fdr)]
    /\ result' = [status |-> "returned", p |-> p, dr |-> dr,
                  FILTER_IN |-> FILTER_IN']
    /\ pc' = "done"
    /\ UNCHANGED <<data, args, session_vars, filter_vars, inner, df, dr, ginv, p, s0x, warned, pca_vars, cdf,
                   hier_vars>>

NextVolcano ==
    \/ VolcanoCopy
    \/ VolcanoRatio
    \/ VolcanoTTest
    \/ VolcanoQValues
    \/ VolcanoCurve
    \/ VolcanoSelect

SpecVolcano == InitVolcano /\ [][NextVolcano]_vars

-----------------------------------------------------------------------------
(* Properties of visualize.volcano *)

Returned == pc = "done" /\ result.status = "returned"

\* |effect size| of feature f, in effect-size units (f's dr is not NaN).
AbsEffect(f) == Abs(Val(result.dr[f]))

\* np.log2(threshold), in effect-size units.
MinRatio == args.threshold * RatioScale

\* The p-value (or q-value) of feature f is at or below the s0 curve at the
\* feature's |effect size| x:  p <= 10^(-s0/(x - minratio)) * fdr, that is
\* k - k_fdr >= s0/(x - minratio) for p = 2^-k.  At x = minratio the curve
\* has no positive value.
AtOrBelowCurve(f) ==
    /\ ~IsNaN(result.p[f])
    /\ ~IsNaN(result.dr[f])
    /\ LET dx == AbsEffect(f) - MinRatio
           dk == Val(result.p[f]) - args.fdr
       IN  /\ dx # 0
           /\ dx > 0 => dk * dx >= args.s0
           /\ dx < 0 => dk * dx <= args.s0

\* |effect size| of f is at or above the first sample point of the curve.
AtOrAboveFirstPoint(f) ==
    /\ s0x.len > 0
    /\ ~IsNaN(result.dr[f])
    /\ AbsEffect(f) * s0x.den >= s0x.start

\* |effect size| of f is at or below the last sample point of the curve.
AtOrBelowLastPoint(f) ==
    /\ s0x.len > 0
    /\ ~IsNaN(result.dr[f])
    /\ AbsEffect(f) * s0x.den
          <= s0x.start + (s0x.len - 1) * s0x.step * s0x.den

\* C1 as stated: a feature is flagged iff its |effect size| lies between the
\* first and the last sample point of the s0 curve and its p-value (or
\* q-value) is at or below the curve there.
C1_FlagIffWithinSampledDomain ==
    Returned =>
        \A f \in DOMAIN result.FILTER_IN :
            result.FILTER_IN[f] <=>
                (/\ AtOrAboveFirstPoint(f)
                 /\ AtOrBelowLastPoint(f)
                 /\ AtOrBelowCurve(f))

\* C1 amended: a feature is flagged iff the s0 curve has a sample point, the
\* feature's |effect size| is at or above the curve's first sample point, and
\* its p-value (or q-value) is at or below the curve's value at that
\* |effect size|; the last sample point is no upper limit.
C1_FlagIffFromFirstPoint ==
    Returned =>
        \A f \in DOMAIN result.FILTER_IN :
            result.FILTER_IN[f] <=>
                (AtOrAboveFirstPoint(f) /\ AtOrBelowCurve(f))

\* C1 witness: a flagged feature beyond the curve's last sample point, next
\* to an unflagged feature that lies inside the sampled domain.
C1_Witness ==
    /\ Returned
    /\ \E f, g \in DOMAIN result.FILTER_IN :
          /\ result.FILTER_IN[f]
          /\ ~AtOrBelowLastPoint(f)
          /\ ~result.FILTER_IN[g]
          /\ AtOrAboveFirstPoint(g) /\ AtOrBelowLastPoint(g)
          /\ ~IsNaN(result.p[g])

\* The valid cells of a row, in order.
ValidCells(row) == SelectSeq(row, LAMBDA c : ~IsNaN(c))

\* Feature f has fewer than minimum_sample_n valid values in group a, or in
\* group b when there is one.
FewerThanMinimum(f) ==
    \/ Len(ValidCells(GroupValues(df, args.a)[f])) < args.minimum_sample_n
    \/ /\ args.b # None
       /\ Len(ValidCells(GroupValues(df, args.b)[f])) < args.minimum_sample_n

RECURSIVE SumCells(_)
SumCells(row) ==
    IF row = <<>> THEN 0 ELSE Val(Head(row)) + SumCells(Tail(row))

\* e * RatioScale is log2(num/den) to whole powers of two, towards zero.
IsLog2Of(e, num, den) ==
    IF num >= den
    THEN e >= 0 /\ Pow2(e) * den <= num /\ num < Pow2(e + 1) * den
    ELSE e <= 0 /\ Pow2(-e) * num <= den /\ den < Pow2(1 - e) * num

\* The effect size the claim gives feature f, from the valid cells alone:
\* mean(A) = sa/na and mean(B) = sb/nb; the log2 of a negative quotient is
\* no number.
EffectAsClaimed(f, x) ==
    LET va == ValidCells(GroupValues(df, args.a)[f])
        vb == IF args.b = None THEN <<>>
              ELSE ValidCells(GroupValues(df, args.b)[f])
        sa == SumCells(va)
        sb == SumCells(vb)
        na == Len(va)
        nb == Len(vb)
    IN  IF args.b = None
        THEN IF na = 0 THEN IsNaN(x)
             ELSE ~IsNaN(x) /\ Val(x) * na = RatioScale * sa
        ELSE IF na = 0 \/ nb = 0 THEN IsNaN(x)
        ELSE IF args.is_log2
             THEN ~IsNaN(x)
                  /\ Val(x) * na * nb = RatioScale * (sb * na - sa * nb)
        ELSE IF sa * sb < 0 THEN IsNaN(x)
        ELSE /\ ~IsNaN(x)
             /\ Val(x) % RatioScale = 0
             /\ IsLog2Of(Val(x) \div RatioScale, Abs(sb) * na, Abs(sa) * nb)

NegativeNotLog2 == HasNegative(data) /\ ~args.is_log2

\* C11: with a negative value in the dataset and is_log2 false, volcano
\* warns and still runs to completion, returning the effect sizes, p-values
\* and inclusion flags of the normal path; it does not abort.
C11_WarnsAndCompletes ==
    (NegativeNotLog2 /\ pc = "done") =>
        /\ warned
        /\ result.status = "returned"
        /\ result.dr = dr /\ result.p = p
        /\ \A f \in DOMAIN result.dr : EffectAsClaimed(f, result.dr[f])

\* What does hold: the warning is given exactly for such data, and volcano
\* then goes on as it does without it.
WarnsAndGoesOn ==
    /\ pc # "volcano" => (warned <=> NegativeNotLog2)
    /\ (NegativeNotLog2 /\ Returned) =>
          \A f \in DOMAIN result.dr : EffectAsClaimed(f, result.dr[f])

\* The flag the selection loop gives feature f for the p array pv.
FlagFor(f, pv) ==
    Select(dr[f], pv[f], s0x, args.s0, args.threshold * RatioScale, args.fdr)

\* C12: with estimate_qvalues set, the q-value step writes exactly the
\* non-missing places of p and leaves every missing p-value missing in its
\* place; it runs before the s0 curve is built and before any feature is
\* classified, and the curve and the classification then use the q-values.
C12_QValuesBeforeCurve ==
    /\ [][(args.estimate_qvalues /\ pc # "curve" /\ pc' = "curve") =>
              /\ pc = "qvalues"
              /\ DOMAIN p' = DOMAIN p
              /\ \A f \in DOMAIN p : IsNaN(p[f]) => IsNaN(p'[f])
              /\ UNCHANGED <<s0x, FILTER_IN, result>>]_vars
    /\ [][(args.estimate_qvalues /\ pc = "curve" /\ pc' = "select") =>
              /\ p' = p
              /\ s0x' = CalculateS0Curve(args.s0, args.fdr,
                            MMaxPval(args.fdr, p),
                            args.threshold * RatioScale,
                            Val(NanMaxAbs(dr)), CurveInterval)]_vars
    /\ [](Returned /\ args.estimate_qvalues =>
              /\ result.p = p
              /\ \A f \in DOMAIN p : result.FILTER_IN[f] = FlagFor(f, p))

\* C12 witness: q-values were estimated, a feature without a p-value came
\* back without one and another feature was flagged.
C12_Witness ==
    /\ Returned
    /\ args.estimate_qvalues
    /\ \E f, g \in DOMAIN result.p :
          /\ IsNaN(result.p[f])
          /\ ~IsNaN(result.dr[f])
          /\ ~ginv[f]
          /\ result.FILTER_IN[g]

\* C13: if the s0 curve has no sample point, volcano still returns normally
\* and every feature's inclusion flag is false.
C13_EmptyCurveNoneFlagged ==
    [][(pc = "select" /\ s0x.len = 0) =>
          /\ pc' = "done"
          /\ result'.status = "returned"
          /\ DOMAIN result'.FILTER_IN = DOMAIN dr
          /\ \A f \in DOMAIN dr : ~result'.FILTER_IN[f]]_vars

\* C13 witness: volcano returned from a curve without sample points, and a
\* feature at the curve's start with the smallest p-value is not flagged.
C13_Witness ==
    /\ Returned
    /\ s0x.len = 0
    /\ \E f \in DOMAIN result.p :
          /\ result.p[f] = Num(MaxK)
          /\ ~IsNaN(result.dr[f])
          /\ AbsEffect(f) * s0x.den >= s0x.start
          /\ AbsEffect(f) > MinRatio
          /\ ~result.FILTER_IN[f]

\* Lines 530-552 run with the smoothing value s0 on the effect sizes and
\* p-values of the call: the inclusion flag of every feature.
FlagsWith(s0) ==
    LET sx == CalculateS0Curve(s0, args.fdr, MMaxPval(args.fdr, p),
                               args.threshold * RatioScale,
                               Val(NanMaxAbs(dr)), CurveInterval)
    IN  [f \in DOMAIN dr |->
            Select(dr[f], p[f], sx, s0, args.threshold * RatioScale, args.fdr)]

\* C14: for the dataset, groups, fdr and threshold of a call that returned,
\* every feature flagged with the call's s0 is also flagged with any smaller
\* s0 >= 0: increasing s0 never adds a significant feature.
C14_LargerS0NeverAdds ==
    Returned =>
        \A s0_a \in {s \in S0Vals : s <= args.s0} :
            \A f \in DOMAIN result.FILTER_IN :
                result.FILTER_IN[f] => FlagsWith(s0_a)[f]

\* The same for the features whose |effect size| is above log2(threshold).
LargerS0NeverAddsAboveThreshold ==
    Returned =>
        \A s0_a \in {s \in S0Vals : s <= args.s0} :
            \A f \in DOMAIN result.FILTER_IN :
                (result.FILTER_IN[f] /\ AbsEffect(f) > MinRatio)
                    => FlagsWith(s0_a)[f]

\* calculate_s0_curve has returned its x to line 530.
CurveDrawn == pc = "select"

\* ax0 and maxratio of the call of line 530, over the denominator of s0x.
Ax0 == args.s0 + s0x.den * args.threshold * RatioScale

MaxRatio == Val(NanMaxAbs(dr)) * s0x.den

\* The sample point of index i of s0x, over the denominator of s0x.
SamplePoint(i) == s0x.start + i * s0x.step * s0x.den

\* The first and the last sample point; the others lie between them.
EndPoints == IF s0x.len = 0 THEN {} ELSE {0, s0x.len - 1}

\* C25: the sample points of calculate_s0_curve start at ax0 =
\* (s0 + maxpval_adjust * minratio) / maxpval_adjust, increase in steps of
\* curve_interval, and every sample point x has ax0 <= x <= maxratio, also
\* when maxratio is below ax0.
C25_SamplesFromAx0ToMaxRatio ==
    (CurveDrawn /\ s0x.len > 0) =>
        /\ s0x.start = Ax0
        /\ s0x.step = CurveInterval
        /\ \A i \in EndPoints :
              /\ Ax0 <= SamplePoint(i)
              /\ SamplePoint(i) <= MaxRatio

\* The same where maxratio is above ax0: the branch of line 208.
SamplesFromAx0WhenAbove ==
    (CurveDrawn /\ s0x.len > 0 /\ MaxRatio > Ax0) =>
        /\ s0x.start = Ax0
        /\ s0x.step = CurveInterval
        /\ \A i \in EndPoints :
              /\ Ax0 <= SamplePoint(i)
              /\ SamplePoint(i) < MaxRatio

\* Where maxratio is below ax0, the branch of line 210: the samples run
\* from max_x, within one step below maxratio, up to ax0.
SamplesUpToAx0WhenBelow ==
    (CurveDrawn /\ s0x.len > 0 /\ MaxRatio <= Ax0) =>
        /\ s0x.start <= MaxRatio
        /\ MaxRatio - s0x.start < s0x.step * s0x.den
        /\ \A i \in EndPoints : SamplePoint(i) < Ax0

\* Feature f is past the threshold and at or below fdr: |effect size| >=
\* log2(threshold), and p <= fdr for its p-value (or q-value) p = 2^-k.
PastThresholdWithinFdr(f) ==
    /\ ~IsNaN(result.dr[f])
    /\ AbsEffect(f) >= MinRatio
    /\ ~IsNaN(result.p[f])
    /\ Val(result.p[f]) >= args.fdr

\* C28: every feature volcano flags as significant has |effect size| >=
\* log2(threshold) and a p-value (or q-value) <= fdr, for every s0 >= 0 and
\* every dataset, also those whose largest |effect size| is below
\* log2(threshold).
C28_FlaggedPastThresholdWithinFdr ==
    Returned =>
        \A f \in DOMAIN result.FILTER_IN :
            result.FILTER_IN[f] => PastThresholdWithinFdr(f)

\* The same for the calls whose largest |effect size| is above ax0, where
\* the curve starts at ax0 >= log2(threshold).
FlaggedPastThresholdWhenAbove ==
    (Returned /\ MaxRatio > Ax0) =>
        \A f \in DOMAIN result.FILTER_IN :
            result.FILTER_IN[f] => PastThresholdWithinFdr(f)

\* C15: p, dr and the inclusion flags have exactly one entry per row of the
\* input table, entry f belonging to row f; a feature with too few values or
\* with undefined statistics keeps its place, as missing and not flagged.
C15_OneEntryPerInputRow ==
    /\ pc \in {"qvalues", "curve", "select"} =>
          /\ DOMAIN dr = 1..NRows(data)
          /\ DOMAIN p = 1..NRows(data)
    /\ Returned =>
          /\ DOMAIN result.p = 1..NRows(data)
          /\ DOMAIN result.dr = 1..NRows(data)
          /\ DOMAIN result.FILTER_IN = 1..NRows(data)
          /\ \A f \in 1..NRows(data) :
                /\ EffectAsClaimed(f, result.dr[f])
                /\ FewerThanMinimum(f) =>
                      IsNaN(result.p[f]) /\ ~result.FILTER_IN[f]
                /\ (IsNaN(result.dr[f]) \/ IsNaN(result.p[f])) =>
                      ~result.FILTER_IN[f]

\* C15 witness: of two rows the first has no effect size and no p-value and
\* is still there, unflagged, before the second, which is flagged.
C15_Witness ==
    /\ Returned
    /\ NRows(data) = 2
    /\ Len(result.dr) = 2 /\ Len(result.p) = 2 /\ Len(result.FILTER_IN) = 2
    /\ IsNaN(result.dr[1]) /\ IsNaN(result.p[1]) /\ ~result.FILTER_IN[1]
    /\ ~IsNaN(result.dr[2]) /\ result.FILTER_IN[2]

\* C15 witness of the other kind: a one-row table whose feature has fewer
\* than minimum_sample_n values came back with its one entry in each array.
TooFewStillThere ==
    /\ Returned
    /\ args.minimum_sample_n > 0
    /\ FewerThanMinimum(1)
    /\ ~IsNaN(result.dr[1])
    /\ Len(result.p) = 1 /\ IsNaN(result.p[1])
    /\ Len(result.FILTER_IN) = 1 /\ ~result.FILTER_IN[1]

\* The table t with every missing cell replaced by v.
Filled(t, v) ==
    [t EXCEPT !.values =
        [r \in DOMAIN t.values |->
            [c \in DOMAIN t.values[r] |->
                IF IsNaN(t.values[r][c]) THEN v ELSE t.values[r][c]]]]

\* The working copy has been made and the group means, counts and t-tests
\* are still to come.
BeforeStatistics == pc = "ratio"

\* C21: when volcano is given a fillna value, 0 included, every missing cell
\* of the working copy holds that value before the group means, the sample
\* counts and the t-tests are computed.
C21_FillnaFillsEveryGap ==
    (BeforeStatistics /\ ~IsNaN(args.fillna)) =>
        df = Filled(data, args.fillna)

\* The same for a fillna value other than 0.
NonZeroFillnaFillsEveryGap ==
    (BeforeStatistics /\ ~IsNaN(args.fillna) /\ args.fillna # Num(0)) =>
        df = Filled(data, args.fillna)

\* With fillna=0 the working copy is the input as it is, gaps included.
ZeroFillnaFillsNothing ==
    (BeforeStatistics /\ args.fillna = Num(0)) => df = data

-----------------------------------------------------------------------------
(* analysis.pca and visualize.pca                                          *)
(*                                                                         *)
(* The working table of analysis.pca is kept as NRows times its values, so *)
(* that subtracting a column mean (a sum over NRows cells divided by       *)
(* NRows) stays in the integers.  The matrix sklearn decomposes is kept as *)
(* NCols times that again, for the per-feature mean sklearn removes.       *)
(* The numbers sklearn computes are symbolic: a score is named by its      *)
(* component and its sample, a weight by its component and its feature,    *)
(* and each frame carries the decomposed matrix and the number of          *)
(* components they were computed from.                                     *)

RECURSIVE Total(_)
Total(s) == IF s = <<>> THEN 0 ELSE Head(s) + Total(Tail(s))

Column(t, c) == [r \in 1..NRows(t) |-> Val(t.values[r][c])]

Row(t, r) == [c \in 1..NCols(t) |-> Val(t.values[r][c])]

\* m.T for a matrix with at least one row.
Transpose(m) == [j \in 1..Len(m[1]) |-> [i \in 1..Len(m) |-> m[i][j]]]

\* df[np.isnan(df)] = 0
ZeroFilled(t) ==
    Frame(t.index, t.columns,
          [r \in 1..NRows(t) |-> [c \in 1..NCols(t) |->
              IF IsNaN(t.values[r][c]) THEN Num(0) ELSE t.values[r][c]]])

\* The table as it is, in units of 1/NRows.
TimesRows(t) ==
    Frame(t.index, t.columns,
          [r \in 1..NRows(t) |-> [c \in 1..NCols(t) |->
              Num(NRows(t) * Val(t.values[r][c]))]])

\* mean = np.mean(df.values, axis=0); df = df - mean: axis 0 runs down the
\* rows, so mean[c] is the mean of column c and is subtracted from every
\* cell of that column.  In units of 1/NRows.
MeanCentered(t) ==
    Frame(t.index, t.columns,
          [r \in 1..NRows(t) |-> [c \in 1..NCols(t) |->
              Num(NRows(t) * Val(t.values[r][c]) - Total(Column(t, c)))]])

\* What PCA.fit(df.values.T) decomposes: sklearn removes from each feature
\* (a row of df, a column of df.values.T) its mean over the samples.
Decomposed(t) ==
    [r \in 1..NRows(t) |-> [c \in 1..NCols(t) |->
        NCols(t) * Val(t.values[r][c]) - Total(Row(t, r))]]

PcaModel(t, n_components) ==
    [centred |-> Decomposed(t), n_components |-> n_components]

\* pca.transform(df.values.T): n_samples x n_components.
PcaTransform(t, n_components) ==
    [j \in 1..NCols(t) |-> [c \in 1..n_components |-> <<c, j>>]]

\* pca.components_: n_components x n_features.
PcaComponents(t, n_components) ==
    [c \in 1..n_components |-> [i \in 1..NRows(t) |-> <<c, i>>]]

\* A variant of ComponentLabels that numbers the components from 0.
ComponentLabelsFromZero(prefix, n) == [c \in 1..n |-> <<prefix, c - 1>>]

\* ['<prefix> %d' % (n+1) for n in range(0, n)]
ComponentLabels(prefix, n) == [c \in 1..n |-> <<prefix, c>>]

PcaFrame(index, columns, values, model) ==
    [index |-> index, columns |-> columns, values |-> values,
     model |-> model]

\* Lines 81-83.
Scores(t, n_components) ==
    LET values == Transpose(PcaTransform(t, n_components))
    IN  PcaFrame(ComponentLabels("Principal Component", Len(values)),
                 t.columns, values, PcaModel(t, n_components))

\* Lines 85-87.
Weights(t, n_components) ==
    LET values == Transpose(PcaComponents(t, n_components))
    IN  PcaFrame(t.index,
                 ComponentLabels("Weights on Principal Component",
                                 Len(values[1])),
                 values, PcaModel(t, n_components))

\* analysis.pca as a function of its arguments.
AnalysisPca(t, n_components, mean_center) ==
    LET filled == ZeroFilled(t)
        fitted == IF mean_center THEN MeanCentered(filled)
                  ELSE TimesRows(filled)
    IN  [status |-> "returned",
         scores |-> Scores(fitted, n_components),
         weights |-> Weights(fitted, n_components)]

FeatureLabels == <<"f1", "f2", "f3", "f4">>

SampleLabels == <<<<"A", 1>>, <<"A", 2>>, <<"B", 1>>, <<"B", 2>>>>

Tables(nf, ns) ==
    {Frame(SubSeq(FeatureLabels, 1, nf), SubSeq(SampleLabels, 1, ns), v) :
        v \in [1..nf -> [1..ns -> Cells]]}

\* features x samples
PcaShapes == {<<2, 2>>, <<2, 3>>, <<3, 2>>}

Min2(a, b) == IF a <= b THEN a ELSE b

\* Calls with n_components in 1..min(samples, features), the range every
\* release of sklearn accepts.
PcaCalls ==
    UNION {[data : Tables(sh[1], sh[2]),
            args : [entry : {"analysis.pca"},
                    n_components : 1..Min2(sh[1], sh[2]),
                    mean_center : BOOLEAN, return_df : {FALSE}]
                   \cup [entry : {"visualize.pca"},
                         n_components : 1..Min2(sh[1], sh[2]),
                         mean_center : BOOLEAN, return_df : BOOLEAN]] :
           sh \in PcaShapes}

InitPca ==
    /\ \E c \in PcaCalls : data = c.data /\ args = c.args
    /\ inner = Unset
    /\ pc = args.entry
    /\ df = Unset
    /\ dr = Unset /\ ginv = Unset /\ p = Unset /\ s0x = Unset
    /\ FILTER_IN = Unset
    /\ warned = FALSE
    /\ palette = Unset /\ history = Unset /\ lib = Unset /\ mask = Unset
    /\ dft = Unset /\ levels = Unset /\ idx = Unset
    /\ scores = Unset /\ weights = Unset /\ cdf = Unset
    /\ row_clusters = Unset /\ col_clusters = Unset
    /\ row_denD = Unset /\ col_denD = Unset /\ opt = Unset /\ edges = Unset
    /\ result = NoResult

\* A caller enters analysis.pca with its own arguments.
AnalysisPcaCall ==
    /\ pc = "analysis.pca"
    /\ inner' = [n_components |-> args.n_components,
                 mean_center |-> args.mean_center]
    /\ pc' = "copy"
    /\ UNCHANGED <<data, args, session_vars, filter_vars, df, volcano_vars, pca_vars, cdf, hier_vars,
                   result>>

\* visualize.py line 398: analysis.pca(df, n_components=n_components, *args,
\* **kwargs); mean_center is not passed on and takes its default, False.
VisualizePcaCall ==
    /\ pc = "visualize.pca"
    /\ inner' = [n_components |-> args.n_components, mean_center |-> FALSE]
    /\ pc' = "copy"
    /\ UNCHANGED <<data, args, session_vars, filter_vars, df, volcano_vars, pca_vars, cdf, hier_vars,
                   result>>

\* analysis.py lines 69-72.
PcaCopy ==
    /\ pc = "copy"
    /\ df' = ZeroFilled(data)
    /\ pc' = "center"
    /\ UNCHANGED <<data, args, session_vars, filter_vars, inner, volcano_vars, pca_vars, cdf, hier_vars,
                   result>>

\* analysis.py lines 74-76.
PcaCenter ==
    /\ pc = "center"
    /\ df' = IF inner.mean_center THEN MeanCentered(df) ELSE TimesRows(df)
    /\ pc' = "fit"
    /\ UNCHANGED <<data, args, session_vars, filter_vars, inner, volcano_vars, pca_vars, cdf, hier_vars,
                   result>>

\* analysis.py lines 78-89.
PcaFit ==
    /\ pc = "fit"
    /\ scores' = Scores(df, inner.n_components)
    /\ weights' = Weights(df, inner.n_components)
    /\ IF args.entry = "analysis.pca"
       THEN /\ result' = [status |-> "returned", scores |-> scores',
                          weights |-> weights']
            /\ pc' = "done"
       ELSE /\ result' = result
            /\ pc' = "plot"
    /\ UNCHANGED <<data, args, session_vars, filter_vars, inner, df, volcano_vars, cdf, hier_vars>>

\* visualize.py lines 400-404: the plots.  _pca_scores labels its axes with
\* scores.index[0] and scores.index[1] (lines 325-326).
VisualizePcaPlot ==
    /\ pc = "plot"
    /\ IF Len(scores.index) < 2
       THEN /\ result' = Raised("IndexError")
            /\ pc' = "done"
       ELSE /\ result' = result
            /\ pc' = "return"
    /\ UNCHANGED <<data, args, session_vars, filter_vars, inner, df, volcano_vars, pca_vars, cdf,
                   hier_vars>>

\* visualize.py lines 406-409.
VisualizePcaReturn ==
    /\ pc = "return"
    /\ result' = IF args.return_df
                 THEN [status |-> "returned", scores |-> scores,
                       weights |-> weights]
                 ELSE [status |-> "returned", scores |-> "scores_ax",
                       weights |-> "weights_ax"]
    /\ pc' = "done"
    /\ UNCHANGED <<data, args, session_vars, filter_vars, inner, df, volcano_vars, pca_vars, cdf,
                   hier_vars>>

NextPca ==
    \/ AnalysisPcaCall
    \/ VisualizePcaCall
    \/ PcaCopy
    \/ PcaCenter
    \/ PcaFit
    \/ VisualizePcaPlot
    \/ VisualizePcaReturn

SpecPca == InitPca /\ [][NextPca]_vars

-----------------------------------------------------------------------------
(* Properties of analysis.pca and visualize.pca *)

\* analysis.pca has centred its working table and is about to fit it.
Fitting == pc = "fit"

\* C5: with mean_center set, pca subtracts from each row (feature) the mean
\* of that row across all samples before fitting, so every row of the fitted
\* matrix has mean zero.
C5_RowsMeanCentred ==
    (Fitting /\ inner.mean_center) =>
        \A r \in 1..NRows(df) :
            /\ Total(Row(df, r)) = 0
            /\ \A c \in 1..NCols(df) :
                  NCols(df) * Val(df.values[r][c])
                      = NRows(df) * (NCols(df) * Val(ZeroFilled(data).values[r][c])
                                       - Total(Row(ZeroFilled(data), r)))

\* What the code does instead: every column of the fitted matrix has mean
\* zero.
C5_ColumnsMeanCentred ==
    (Fitting /\ inner.mean_center) =>
        \A c \in 1..NCols(df) : Total(Column(df, c)) = 0

\* C7: for a table of F features by S samples and n_components = k, the
\* scores have k rows labelled 'Principal Component 1'..'Principal Component
\* k' and S columns carrying the table's column labels in order; the weights
\* have F rows carrying the table's row index and k columns.
C7_ShapesAndLabels ==
    (pc = "done" /\ args.entry = "analysis.pca") =>
        /\ result.status = "returned"
        /\ Len(result.scores.values) = args.n_components
        /\ \A c \in 1..Len(result.scores.values) :
              Len(result.scores.values[c]) = NCols(data)
        /\ result.scores.index
              = [c \in 1..args.n_components |-> <<"Principal Component", c>>]
        /\ result.scores.columns = data.columns
        /\ Len(result.weights.values) = NRows(data)
        /\ \A i \in 1..Len(result.weights.values) :
              Len(result.weights.values[i]) = args.n_components
        /\ result.weights.index = data.index
        /\ Len(result.weights.columns) = args.n_components

\* C7 witness: a 2-component analysis of a table with 3 samples and 2
\* features that has a gap has returned.
C7_Witness ==
    /\ pc = "done" /\ args.entry = "analysis.pca"
    /\ result.status = "returned"
    /\ args.n_components = 2
    /\ NCols(data) = 3 /\ NRows(data) = 2
    /\ \E r \in 1..2 : IsNaN(data.values[r][1])
    /\ Len(result.scores.values) = 2
    /\ Len(result.weights.values) = 2

\* C8: visualize.pca with return_df set returns exactly the scores and
\* weights analysis.pca returns for the same table and the same arguments,
\* mean_center included.
C8_VisualizeSameAsAnalysis ==
    (pc = "done" /\ args.entry = "visualize.pca" /\ args.return_df) =>
        result = AnalysisPca(data, args.n_components, args.mean_center)

\* The same with mean_center off and two components or more asked for: what
\* does hold of visualize.pca.
C8_SameWithoutMeanCenter ==
    (/\ pc = "done" /\ args.entry = "visualize.pca" /\ args.return_df
     /\ ~args.mean_center /\ args.n_components >= 2) =>
        result = AnalysisPca(data, args.n_components, args.mean_center)

-----------------------------------------------------------------------------
(* analysis.correlation                                                    *)
(*                                                                         *)
(* numpy.ma.corrcoef(maskv, rowvar=False) is followed through numpy's      *)
(* masked arithmetic: an element of a masked array is a mask bit and the   *)
(* number stored under it, and a masked division stores its numerator      *)
(* where the result is masked.  A number is the exact value                *)
(*     <<n, d, a, b>>  =  (n / d) * sqrt(a / b).                           *)

\* The rows in which columns i and j both hold a value.
Pairs(t, i, j) ==
    {r \in 1..NRows(t) : ~IsNaN(t.values[r][i]) /\ ~IsNaN(t.values[r][j])}

Count(t, i) == Cardinality(Pairs(t, i, i))

ColSum(t, i) ==
    Total([r \in 1..NRows(t) |->
              IF r \in Pairs(t, i, i) THEN Val(t.values[r][i]) ELSE 0])

\* x -= x.mean(axis=0), times Count(t, i).
Deviation(t, r, i) == Count(t, i) * Val(t.values[r][i]) - ColSum(t, i)

\* dot(x.T, x, strict=False): masked cells count as 0, and the product is
\* masked where no row holds both values.  Times Count(t,i) * Count(t,j).
Dot(t, i, j) ==
    Total([r \in 1..NRows(t) |->
              IF r \in Pairs(t, i, j)
              THEN Deviation(t, r, i) * Deviation(t, r, j) ELSE 0])

\* numpy.ma.cov: dot / (number of pairs - 1).
MaCov(t, i, j) ==
    LET n == Cardinality(Pairs(t, i, j))
    IN  IF n = 0 THEN [mask |-> TRUE, num |-> 0, den |-> 1]
        ELSE IF n = 1
        THEN [mask |-> TRUE, num |-> Dot(t, i, j),
              den |-> Count(t, i) * Count(t, j)]
        ELSE [mask |-> FALSE, num |-> Dot(t, i, j),
              den |-> Count(t, i) * Count(t, j) * (n - 1)]

\* numpy.ma.corrcoef: cov[i][j] / (std[i] * std[j]), std = sqrt(diag(cov)).
MaCorrcoef(t) ==
    [i \in 1..NCols(t) |-> [j \in 1..NCols(t) |->
        LET c  == MaCov(t, i, j)
            ci == MaCov(t, i, i)
            cj == MaCov(t, j, j)
        IN  IF c.mask \/ ci.mask \/ cj.mask \/ ci.num = 0 \/ cj.num = 0
            THEN [mask |-> TRUE, data |-> <<c.num, c.den, 1, 1>>]
            ELSE [mask |-> FALSE,
                  data |-> <<c.num, c.den, ci.den * cj.den,
                             ci.num * cj.num>>]]]

\* A variant of Unmasked that turns masked elements into NaN.
MaskedAsNaN(m) ==
    [i \in 1..Len(m) |-> [j \in 1..Len(m[i]) |->
        IF m[i][j].mask THEN NaN ELSE m[i][j].data]]

\* np.array(cdf): the numbers of the masked array, the mask dropped.
Unmasked(m) == [i \in 1..Len(m) |-> [j \in 1..Len(m[i]) |-> m[i][j].data]]

CorrShapes == {<<2, 2>>, <<3, 2>>, <<2, 3>>}

CorrCalls ==
    UNION {[data : Tables(sh[1], sh[2]), args : [rowvar : BOOLEAN]] :
           sh \in CorrShapes}

InitCorr ==
    /\ \E c \in CorrCalls : data = c.data /\ args = c.args
    /\ inner = Unset
    /\ pc = "correlation"
    /\ df = Unset
    /\ dr = Unset /\ ginv = Unset /\ p = Unset /\ s0x = Unset
    /\ FILTER_IN = Unset
    /\ warned = FALSE
    /\ palette = Unset /\ history = Unset /\ lib = Unset /\ mask = Unset
    /\ dft = Unset /\ levels = Unset /\ idx = Unset
    /\ scores = Unset /\ weights = Unset /\ cdf = Unset
    /\ row_clusters = Unset /\ col_clusters = Unset
    /\ row_denD = Unset /\ col_denD = Unset /\ opt = Unset /\ edges = Unset
    /\ result = NoResult

\* Line 37.
CorrCopy ==
    /\ pc = "correlation"
    /\ df' = data
    /\ pc' = "corrcoef"
    /\ UNCHANGED <<data, args, session_vars, filter_vars, inner, volcano_vars, pca_vars, cdf, hier_vars,
                   result>>

\* Lines 38-39: rowvar=False whatever the caller passed.
CorrCoef ==
    /\ pc = "corrcoef"
    /\ cdf' = MaCorrcoef(df)
    /\ pc' = "frame"
    /\ UNCHANGED <<data, args, session_vars, filter_vars, inner, df, volcano_vars, pca_vars, hier_vars,
                   result>>

\* Lines 40-42.
CorrFrame ==
    /\ pc = "frame"
    /\ cdf' = Frame(df.columns, df.columns, Unmasked(cdf))
    /\ pc' = "return"
    /\ UNCHANGED <<data, args, session_vars, filter_vars, inner, df, volcano_vars, pca_vars, hier_vars,
                   result>>

\* Line 44.
CorrReturn ==
    /\ pc = "return"
    /\ result' = [status |-> "returned", cdf |-> cdf]
    /\ pc' = "done"
    /\ UNCHANGED <<data, args, session_vars, filter_vars, inner, df, volcano_vars, pca_vars, cdf,
                   hier_vars>>

NextCorr ==
    \/ CorrCopy
    \/ CorrCoef
    \/ CorrFrame
    \/ CorrReturn

SpecCorr == InitCorr /\ [][NextCorr]_vars

-----------------------------------------------------------------------------
(* Properties of analysis.correlation *)

\* The number e is 1.0.
IsOne(e) ==
    /\ e # NaN
    /\ e[1] > 0
    /\ e[1] * e[1] * e[3] = e[2] * e[2] * e[4]

\* C9: the result of correlation is square, with the table's column labels
\* on both axes, symmetric, and every diagonal entry is 1.0 or missing.
C9_SquareSymmetricUnitDiagonal ==
    (pc = "done" /\ result.status = "returned") =>
        LET m == result.cdf.values
            n == NCols(data)
        IN  /\ Len(m) = n
            /\ \A i \in 1..Len(m) : Len(m[i]) = n
            /\ result.cdf.index = data.columns
            /\ result.cdf.columns = data.columns
            /\ \A i, j \in 1..Len(m) : m[i][j] = m[j][i]
            /\ \A i \in 1..Len(m) : IsOne(m[i][i]) \/ IsNaN(m[i][i])

\* The same without the diagonal.
CorrSquareSymmetric ==
    (pc = "done" /\ result.status = "returned") =>
        LET m == result.cdf.values
            n == NCols(data)
        IN  /\ Len(m) = n
            /\ \A i \in 1..Len(m) : Len(m[i]) = n
            /\ result.cdf.index = data.columns
            /\ result.cdf.columns = data.columns
            /\ \A i, j \in 1..Len(m) : m[i][j] = m[j][i]

-----------------------------------------------------------------------------
(* visualize.hierarchical and its inner optimize_clusters                  *)
(*                                                                         *)
(* The distances and the linkage are scipy's; the model lets the linkage   *)
(* of an axis be any monotone linkage matrix over the axis' items with     *)
(* merge distances on an integer grid.  A linkage matrix is scipy's: row k *)
(* is <<a, b, d, count>>, merging clusters a < b (items are 0..n-1, the    *)
(* cluster made by row k is n+k-1) at distance d.  A table cell is named   *)
(* by its position; the normalised table keeps the names.                  *)

MaxItems == 3

MaxDist == 4

RECURSIVE LinkagesFrom(_, _, _, _)
LinkagesFrom(active, size, next, dmin) ==
    IF Cardinality(active) = 1 THEN {<<>>}
    ELSE UNION {{<<<<m[1], m[2], m[3], size[m[1]] + size[m[2]]>>>> \o rest :
                    rest \in LinkagesFrom(
                        (active \ {m[1], m[2]}) \cup {next},
                        [size EXCEPT ![next] = size[m[1]] + size[m[2]]],
                        next + 1, m[3])} :
                m \in {x \in active \X active \X (dmin..MaxDist) :
                          x[1] < x[2]}}

\* sch.linkage(...) over n items: any monotone linkage matrix.
Linkages(n) == LinkagesFrom(0..(n - 1), [id \in 0..(2 * n - 2) |-> 1], n, 0)

Items(Z) == Len(Z) + 1

\* A linkage matrix without a maximum: the search gets no budget.
NoMaximum(Z) == 0

\* np.max(clusters): the largest entry of the whole linkage matrix.
MatrixMax(Z) ==
    CHOOSE v \in {Z[k][c] : k \in 1..Len(Z), c \in 1..4} :
        \A k \in 1..Len(Z), c \in 1..4 : Z[k][c] <= v

\* sch.dendrogram(Z)['leaves']: the items left to right, the first child of
\* every merge to the left of the second.
RECURSIVE LeavesUnder(_, _)
LeavesUnder(Z, id) ==
    IF id < Items(Z) THEN <<id>>
    ELSE LET row == Z[id - Items(Z) + 1]
         IN  LeavesUnder(Z, row[1]) \o LeavesUnder(Z, row[2])

Leaves(Z) == LeavesUnder(Z, 2 * Items(Z) - 2)

\* range(0, n)
Range(n) == [k \in 1..n |-> k - 1]

\* The cluster that absorbs cluster id, if any.
HasParent(Z, id) == \E k \in 1..Len(Z) : Z[k][1] = id \/ Z[k][2] = id

Parent(Z, id) ==
    Items(Z) - 1 + CHOOSE k \in 1..Len(Z) : Z[k][1] = id \/ Z[k][2] = id

\* The flat cluster of cluster id at threshold t: the largest cluster around
\* it whose merges all lie at distance <= t.
RECURSIVE FlatCluster(_, _, _)
FlatCluster(Z, t, id) ==
    IF HasParent(Z, id) /\ Z[Parent(Z, id) - Items(Z) + 1][3] <= t
    THEN FlatCluster(Z, t, Parent(Z, id))
    ELSE id

\* sch.fcluster(Z, t, 'distance'), per item (the numbering of the flat
\* clusters is scipy's own; only their equality is used).
Fcluster(Z, t) == [k \in 1..Items(Z) |-> FlatCluster(Z, t, k - 1)]

\* Lines 1203-1204.
EdgesAt(Z, leaves, t) ==
    LET cc  == Fcluster(Z, t)
        cco == [k \in 1..Len(leaves) |-> cc[leaves[k] + 1]]
    IN  SelectSeq(Range(Len(cco) - 1), LAMBDA n : cco[n + 1] # cco[n + 2])

\* The edges value: None (or an unassigned local), or a list.
NoEdges == [none |-> TRUE, list |-> <<>>]

EdgesList(l) == [none |-> FALSE, list |-> l]

\* No call of optimize_clusters has been made.
NoOpt == [axis |-> "none"]

\* A variant of WantsEdges that ignores the target.
IgnoresTarget(cluster, n_clusters) == cluster

\* Lines 1319 and 1324: "if cluster_cols and n_col_clusters"; an unset
\* target (False) is 0.
WantsEdges(cluster, n_clusters) == cluster /\ n_clusters # 0

\* dfc.iloc[rows, cols]
Iloc(t, rows, cols) ==
    Frame([i \in 1..Len(rows) |-> t.index[rows[i] + 1]],
          [j \in 1..Len(cols) |-> t.columns[cols[j] + 1]],
          [i \in 1..Len(rows) |-> [j \in 1..Len(cols) |->
              t.values[rows[i] + 1][cols[j] + 1]]])

HierTable(nr, nc) ==
    Frame(SubSeq(FeatureLabels, 1, nr), SubSeq(SampleLabels, 1, nc),
          [r \in 1..nr |-> [c \in 1..nc |-> <<r, c>>]])

\* Column clustering of 2..MaxItems columns with every target,
\* clustering of 3 rows by 2 columns on either axis or none, and tables
\* with a single row or a single column.
HierCalls ==
    [data : {HierTable(1, 2), HierTable(2, 1)},
     args : [cluster_cols : BOOLEAN, cluster_rows : BOOLEAN,
             n_col_clusters : {0, 2}, n_row_clusters : {0, 2},
             return_clusters : BOOLEAN]]
    \cup
    [data : {HierTable(2, nc) : nc \in 2..MaxItems},
     args : [cluster_cols : {TRUE}, cluster_rows : {FALSE},
             n_col_clusters : 0..MaxItems, n_row_clusters : {0, 2},
             return_clusters : BOOLEAN]]
    \cup
    [data : {HierTable(3, 2)},
     args : [cluster_cols : BOOLEAN, cluster_rows : BOOLEAN,
             n_col_clusters : {0, 2}, n_row_clusters : 0..3,
             return_clusters : {TRUE}]]

other_vars ==
    <<inner, dr, ginv, p, s0x, FILTER_IN, warned, scores, weights, cdf>>

InitHier ==
    /\ \E c \in HierCalls : data = c.data /\ args = c.args
    /\ inner = Unset
    /\ pc = "hierarchical"
    /\ df = Unset
    /\ dr = Unset /\ ginv = Unset /\ p = Unset /\ s0x = Unset
    /\ FILTER_IN = Unset
    /\ warned = FALSE
    /\ palette = Unset /\ history = Unset /\ lib = Unset /\ mask = Unset
    /\ dft = Unset /\ levels = Unset /\ idx = Unset
    /\ scores = Unset /\ weights = Unset /\ cdf = Unset
    /\ row_clusters = Unset /\ col_clusters = Unset
    /\ row_denD = Unset /\ col_denD = Unset
    /\ opt = NoOpt
    /\ edges = NoEdges
    /\ result = NoResult

\* Lines 1220-1242: the normalised copy.
HierNormalize ==
    /\ pc = "hierarchical"
    /\ df' = data
    /\ pc' = "linkage"
    /\ UNCHANGED <<data, args, session_vars, filter_vars, other_vars, hier_vars, result>>

\* sch.linkage accepts anything, a single item too.
AnyItems(n) == FALSE

\* sch.linkage on the distances of n items: with fewer than 2 items there
\* is no distance, and scipy raises ValueError.
TooFewItems(n) == n < 2

\* Lines 1248-1254: the rows first, then the columns.
HierLinkage ==
    /\ pc = "linkage"
    /\ IF args.cluster_rows /\ ~TooFewItems(NRows(df))
       THEN row_clusters' \in Linkages(NRows(df))
       ELSE row_clusters' = row_clusters
    /\ IF \/ args.cluster_rows /\ TooFewItems(NRows(df))
          \/ args.cluster_cols /\ TooFewItems(NCols(df))
       THEN /\ col_clusters' = col_clusters
            /\ result' = Raised("ValueError")
            /\ pc' = "done"
       ELSE /\ IF args.cluster_cols
               THEN col_clusters' \in Linkages(NCols(df))
               ELSE col_clusters' = col_clusters
            /\ result' = result
            /\ pc' = "dendrogram"
    /\ UNCHANGED <<data, args, session_vars, filter_vars, other_vars, df, row_denD, col_denD, opt, edges>>

\* Lines 1260-1276: the row leaves are then replaced by range(0, rows).
HierDendrogram ==
    /\ pc = "dendrogram"
    /\ col_denD' = IF args.cluster_cols THEN Leaves(col_clusters)
                   ELSE col_denD
    /\ row_denD' = Range(NRows(df))
    /\ pc' = "heatmap"
    /\ UNCHANGED <<data, args, session_vars, filter_vars, other_vars, df, row_clusters, col_clusters,
                   opt, edges, result>>

\* Lines 1288-1315: the heatmap reads col_denD, which is assigned only when
\* cluster_cols is set.
HierHeatmap ==
    /\ pc = "heatmap"
    /\ IF args.cluster_cols
       THEN /\ result' = result
            /\ pc' = "edges"
       ELSE /\ result' = Raised("NameError")
            /\ pc' = "done"
    /\ UNCHANGED <<data, args, session_vars, filter_vars, other_vars, df, hier_vars>>

\* Line 1317.
HierEdges ==
    /\ pc = "edges"
    /\ edges' = NoEdges
    /\ pc' = "col_edges"
    /\ UNCHANGED <<data, args, session_vars, filter_vars, other_vars, df, row_clusters, col_clusters,
                   row_denD, col_denD, opt, result>>

\* Lines 1196-1200: optimize_clusters is entered.
OptLocals(axis, clusters, leaves, target_n) ==
    [axis |-> axis, clusters |-> clusters, leaves |-> leaves,
     target_n |-> target_n - 1, threshold |-> MatrixMax(clusters),
     max_iterations |-> MatrixMax(clusters), i |-> 0, edges |-> NoEdges,
     broke |-> FALSE]

\* Lines 1319-1320.
HierColEdges ==
    /\ pc = "col_edges"
    /\ IF WantsEdges(args.cluster_cols, args.n_col_clusters)
       THEN /\ opt' = OptLocals("col", col_clusters, col_denD,
                                args.n_col_clusters)
            /\ pc' = "optimize"
       ELSE /\ opt' = opt
            /\ pc' = "row_edges"
    /\ UNCHANGED <<data, args, session_vars, filter_vars, other_vars, df, row_clusters, col_clusters,
                   row_denD, col_denD, edges, result>>

\* Lines 1324-1325.
HierRowEdges ==
    /\ pc = "row_edges"
    /\ IF WantsEdges(args.cluster_rows, args.n_row_clusters)
       THEN /\ opt' = OptLocals("row", row_clusters, row_denD,
                                args.n_row_clusters)
            /\ pc' = "optimize"
       ELSE /\ opt' = opt
            /\ pc' = "return"
    /\ UNCHANGED <<data, args, session_vars, filter_vars, other_vars, df, row_clusters, col_clusters,
                   row_denD, col_denD, edges, result>>

\* Lines 1201-1216: one pass of the while loop.
OptIterate ==
    /\ pc = "optimize"
    /\ ~opt.broke
    /\ opt.i < opt.max_iterations
    /\ LET found == EdgesAt(opt.clusters, opt.leaves, opt.threshold)
           n_clusters == Len(found)
       IN  opt' = IF n_clusters = opt.target_n
                  THEN [opt EXCEPT !.edges = EdgesList(found),
                                   !.broke = TRUE]
                  ELSE [opt EXCEPT
                          !.edges = EdgesList(found),
                          !.threshold =
                              IF n_clusters < opt.target_n
                              THEN opt.threshold \div 2
                              ELSE (3 * opt.threshold) \div 2,
                          !.i = opt.i + 1]
    /\ UNCHANGED <<data, args, session_vars, filter_vars, other_vars, pc, df, row_clusters, col_clusters,
                   row_denD, col_denD, edges, result>>

\* Line 1218, back in lines 1320 or 1325: edges is a local the loop assigns.
OptReturn ==
    /\ pc = "optimize"
    /\ opt.broke \/ opt.i >= opt.max_iterations
    /\ IF opt.edges.none
       THEN /\ result' = Raised("UnboundLocalError")
            /\ edges' = edges
            /\ pc' = "done"
       ELSE /\ result' = result
            /\ edges' = opt.edges
            /\ pc' = IF opt.axis = "col" THEN "row_edges" ELSE "return"
    /\ UNCHANGED <<data, args, session_vars, filter_vars, other_vars, df, row_clusters, col_clusters,
                   row_denD, col_denD, opt>>

\* Lines 1330-1335.
HierReturn ==
    /\ pc = "return"
    /\ result' = IF args.return_clusters
                 THEN [status |-> "returned", fig |-> "fig",
                       table |-> Iloc(df, row_denD, col_denD),
                       edges |-> edges]
                 ELSE [status |-> "returned", fig |-> "fig"]
    /\ pc' = "done"
    /\ UNCHANGED <<data, args, session_vars, filter_vars, other_vars, df, hier_vars>>

NextHier ==
    \/ HierNormalize
    \/ HierLinkage
    \/ HierDendrogram
    \/ HierHeatmap
    \/ HierEdges
    \/ HierColEdges
    \/ OptIterate
    \/ OptReturn
    \/ HierRowEdges
    \/ HierReturn

SpecHier == InitHier /\ [][NextHier]_vars

-----------------------------------------------------------------------------
(* Properties of visualize.hierarchical *)

\* optimize_clusters has returned to hierarchical for the axis it was
\* called on.
SearchReturned ==
    /\ opt.axis # "none"
    /\ \/ opt.axis = "col" /\ pc = "row_edges"
       \/ opt.axis = "row" /\ pc = "return"

\* The items of the axis are distinct: no merge at distance 0.
DistinctItems(Z) == \A k \in 1..Len(Z) : Z[k][3] > 0

\* C3: when a target number of clusters n is given for an axis with at least
\* n distinct items, the edges optimize_clusters returns contain at least
\* n - 1 boundaries, for every linkage tree.
C3_AtLeastTargetEdges ==
    (/\ SearchReturned
     /\ Items(opt.clusters) >= opt.target_n + 1
     /\ DistinctItems(opt.clusters)) =>
        Len(edges.list) >= opt.target_n

\* C4: when no target cluster count is given (both unset), hierarchical
\* never runs the threshold search, and the edges value it returns is none,
\* for every combination of cluster_cols and cluster_rows.
C4_NoTargetNoSearch ==
    (args.n_col_clusters = 0 /\ args.n_row_clusters = 0) =>
        /\ opt.axis = "none"
        /\ pc # "optimize"
        /\ (pc = "done" /\ result.status = "returned"
                /\ args.return_clusters) =>
              result.edges = NoEdges

\* C4 witness: both axes were clustered without a target, and hierarchical
\* returned its edges.
C4_Witness ==
    /\ args.n_col_clusters = 0 /\ args.n_row_clusters = 0
    /\ args.cluster_cols /\ args.cluster_rows
    /\ pc = "done" /\ result.status = "returned"
    /\ args.return_clusters
    /\ result.edges = NoEdges

\* The target counts optimize_clusters is tried with.
MaxTarget == 3

\* Lines 1195-1218: optimize_clusters by itself, entered with any linkage
\* matrix, the leaves in dendrogram order (columns) or in range order (rows),
\* and any target.
InitOptimize ==
    /\ \E n \in 2..MaxItems :
          \E clusters \in Linkages(n), target_n \in 1..MaxTarget :
             \E leaves \in {Leaves(clusters), Range(n)} :
                opt = OptLocals(IF leaves = Range(n) THEN "row" ELSE "col",
                                clusters, leaves, target_n)
    /\ pc = "optimize"
    /\ edges = NoEdges
    /\ result = NoResult
    /\ data = Unset /\ args = Unset /\ inner = Unset /\ df = Unset
    /\ dr = Unset /\ ginv = Unset /\ p = Unset /\ s0x = Unset
    /\ FILTER_IN = Unset
    /\ warned = FALSE
    /\ palette = Unset /\ history = Unset /\ lib = Unset /\ mask = Unset
    /\ dft = Unset /\ levels = Unset /\ idx = Unset
    /\ scores = Unset /\ weights = Unset /\ cdf = Unset
    /\ row_clusters = Unset /\ col_clusters = Unset
    /\ row_denD = Unset /\ col_denD = Unset

NextOptimize ==
    \/ OptIterate
    \/ OptReturn

\* Python runs the while loop on: a pass or the return that can be taken is
\* taken.
SpecOptimize ==
    InitOptimize /\ [][NextOptimize]_vars /\ WF_<<pc, opt>>(NextOptimize)

\* The threshold search is running.
Searching == pc = "optimize"

\* C22: the threshold search of optimize_clusters always terminates: it
\* leaves the loop because the edge count equals target - 1 or after
\* max_iterations passes, max_iterations being the initial threshold; the
\* loop body has then run at least once, so an edge list is returned.
C22_SearchTerminates ==
    /\ [](Searching =>
            /\ opt.max_iterations = MatrixMax(opt.clusters)
            /\ opt.i <= opt.max_iterations
            /\ opt.i > 0 => ~opt.edges.none
            /\ opt.broke =>
                  /\ ~opt.edges.none
                  /\ Len(opt.edges.list) = opt.target_n)
    /\ [][(Searching /\ pc' # "optimize") =>
             /\ opt.broke \/ opt.i = opt.max_iterations
             /\ ~opt.edges.none
             /\ edges' = opt.edges
             /\ result'.status # "raised"]_pc
    /\ Searching ~> ~Searching

\* C22 witness: a search has spent its whole budget without meeting the
\* target and has returned the list of its last pass.
C22_Witness ==
    /\ SearchReturned
    /\ ~opt.broke
    /\ opt.i = opt.max_iterations
    /\ ~edges.none
    /\ Len(edges.list) # opt.target_n

\* The largest value of the merge-distance column (the third) of Z.
MaxMergeDistance(Z) ==
    CHOOSE v \in {Z[k][3] : k \in 1..Len(Z)} :
        \A k \in 1..Len(Z) : Z[k][3] <= v

\* optimize_clusters has been entered and no pass has changed its locals.
SearchEntered == Searching /\ opt.i = 0 /\ opt.edges.none

\* C23: the threshold search starts at the maximum merge distance of the
\* linkage tree: the initial threshold, and hence the iteration budget, is
\* the largest value of the merge-distance column, not a value of the
\* cluster-index or member-count columns.
C23_StartsAtMaxMergeDistance ==
    SearchEntered =>
       /\ opt.threshold = MaxMergeDistance(opt.clusters)
       /\ opt.max_iterations = MaxMergeDistance(opt.clusters)

\* What lines 1197-1198 do: the start is the largest entry of the whole
\* matrix, which is an index or a count whenever no distance exceeds them.
StartsAtMatrixMax ==
    SearchEntered =>
       /\ opt.threshold = MatrixMax(opt.clusters)
       /\ opt.max_iterations = MatrixMax(opt.clusters)
       /\ opt.threshold >= Items(opt.clusters)
       /\ opt.threshold >= MaxMergeDistance(opt.clusters)

\* A pass of the loop that does not end it: lines 1212-1216 have run.
PassGoesOn == Searching /\ pc' = "optimize" /\ opt'.i = opt.i + 1

\* The edge count the pass has found, against target - 1.
FoundBelow == Len(opt'.edges.list) < opt.target_n

FoundAbove == Len(opt'.edges.list) > opt.target_n

\* C24: in each pass that does not end the loop the threshold is halved
\* when the edge count is below target - 1 and multiplied by 1.5 when it is
\* above, and in no other way; the threshold strictly decreases on a
\* below-target pass and strictly increases on an above-target pass.
C24_HalvedOrTimesOneAndAHalf ==
    [][PassGoesOn =>
          /\ FoundBelow \/ FoundAbove
          /\ FoundBelow =>
                /\ 2 * opt'.threshold = opt.threshold
                /\ opt'.threshold < opt.threshold
          /\ FoundAbove =>
                /\ 2 * opt'.threshold = 3 * opt.threshold
                /\ opt'.threshold > opt.threshold]_opt

\* What lines 1212-1215 do: floor division by 2, or the integer part of
\* 1.5 times the threshold; the threshold never moves the wrong way, but it
\* stays where it is at 0 (halving) and at 1 (int(1.5) = 1).
FloorHalvedOrTruncated ==
    [][PassGoesOn =>
          /\ FoundBelow \/ FoundAbove
          /\ FoundBelow =>
                /\ opt'.threshold = opt.threshold \div 2
                /\ opt'.threshold <= opt.threshold
                /\ opt'.threshold = opt.threshold => opt.threshold = 0
          /\ FoundAbove =>
                /\ opt'.threshold = (3 * opt.threshold) \div 2
                /\ opt'.threshold >= opt.threshold
                /\ opt'.threshold = opt.threshold => opt.threshold \in {0, 1}]_opt

\* Only the strict part of C24.
StrictlyDownOrUp ==
    [][PassGoesOn =>
          /\ FoundBelow => opt'.threshold < opt.threshold
          /\ FoundAbove => opt'.threshold > opt.threshold]_opt

\* hierarchical has returned its table and edges.
ClustersReturned ==
    pc = "done" /\ result.status = "returned" /\ args.return_clusters

\* The labels of an axis in the leaf order of its dendrogram.
InLeafOrder(labels, Z) ==
    [k \in 1..Len(labels) |-> labels[Leaves(Z)[k] + 1]]

\* C26: when hierarchical clusters rows, the row order of the returned table
\* is the leaf order of the row dendrogram and the row edges are computed
\* between leaves consecutive in that order; likewise for the columns.
C26_DendrogramLeafOrder ==
    /\ (Searching /\ opt.axis = "row") => opt.leaves = Leaves(row_clusters)
    /\ (Searching /\ opt.axis = "col") => opt.leaves = Leaves(col_clusters)
    /\ (ClustersReturned /\ args.cluster_rows) =>
          result.table.index = InLeafOrder(df.index, row_clusters)
    /\ (ClustersReturned /\ args.cluster_cols) =>
          result.table.columns = InLeafOrder(df.columns, col_clusters)

\* The column half of C26.
ColumnsInLeafOrder ==
    /\ (Searching /\ opt.axis = "col") => opt.leaves = Leaves(col_clusters)
    /\ (ClustersReturned /\ args.cluster_cols) =>
          result.table.columns = InLeafOrder(df.columns, col_clusters)

\* Lines 1274-1276: the rows stay in the order of the input, clustered or
\* not, and the row edges are computed between rows consecutive in it.
RowsInInputOrder ==
    /\ (Searching /\ opt.axis = "row") =>
          opt.leaves = Range(Items(row_clusters))
    /\ ClustersReturned => result.table.index = df.index

\* Every axis that is to be clustered has at least 2 items.
EnoughToCluster ==
    /\ args.cluster_rows => ~TooFewItems(NRows(data))
    /\ args.cluster_cols => ~TooFewItems(NCols(data))

\* C29: hierarchical completes and returns a result for every combination
\* of cluster_cols and cluster_rows, cluster_cols false included: every
\* leaf order and tree read for the ordered table and the edges has been
\* assigned on that path.
C29_ReturnsForEveryCombination ==
    (pc = "done" /\ EnoughToCluster) => result.status = "returned"

\* The same with cluster_cols set.
ReturnsWhenColumnsClustered ==
    (pc = "done" /\ EnoughToCluster /\ args.cluster_cols) =>
        result.status = "returned"

\* Line 1291 reads col_denD, which only line 1263 assigns: without
\* cluster_cols the call ends there in a NameError.
NameErrorWithoutColumns ==
    (pc = "done" /\ EnoughToCluster /\ ~args.cluster_cols) =>
        result = Raised("NameError")

\* Lines 1200-1218 as a function: the loop from pass i on, last being the
\* edges of the pass before.
RECURSIVE SearchFrom(_, _, _, _, _, _)
SearchFrom(Z, leaves, target_n, threshold, i, last) ==
    IF i >= MatrixMax(Z) THEN last
    ELSE LET found == EdgesAt(Z, leaves, threshold)
         IN  IF Len(found) = target_n THEN found
             ELSE SearchFrom(Z, leaves, target_n,
                             IF Len(found) < target_n THEN threshold \div 2
                             ELSE (3 * threshold) \div 2,
                             i + 1, found)

\* optimize_clusters(clusters, denD, target_n)
OptimizeClusters(Z, leaves, target_n) ==
    SearchFrom(Z, leaves, target_n - 1, MatrixMax(Z), 0, <<>>)

\* The steps of the search give what the function gives.
SearchAsFunction ==
    SearchReturned =>
        edges.list = OptimizeClusters(opt.clusters, opt.leaves,
                                      opt.target_n + 1)

\* Both axes are clustered with a target, and the edges are returned.
BothTargetsReturned ==
    /\ ClustersReturned
    /\ WantsEdges(args.cluster_cols, args.n_col_clusters)
    /\ WantsEdges(args.cluster_rows, args.n_row_clusters)

ColEdges == OptimizeClusters(col_clusters, col_denD, args.n_col_clusters)

RowEdges == OptimizeClusters(row_clusters, row_denD, args.n_row_clusters)

Contains(list, part) ==
    \A k \in DOMAIN part : \E j \in DOMAIN list : list[j] = part[k]

\* C30: with a column target and a row target, the edges returned with
\* return_clusters contain the column edges as well as the row edges:
\* computing the row edges does not discard the column edges.
C30_ColumnAndRowEdgesReturned ==
    BothTargetsReturned =>
        /\ ~result.edges.none
        /\ Contains(result.edges.list, ColEdges)
        /\ Contains(result.edges.list, RowEdges)

\* Line 1325 assigns the name line 1320 assigned: the row edges are all
\* that is returned.
OnlyRowEdgesReturned ==
    BothTargetsReturned => result.edges = EdgesList(RowEdges)

\* An axis that is to be clustered has fewer than 2 items.
TooFewToCluster ==
    \/ args.cluster_rows /\ NRows(data) < 2
    \/ args.cluster_cols /\ NCols(data) < 2

\* C16: with fewer than 2 items on an axis that is to be clustered,
\* hierarchical fails with ValueError at the linkage, and no tree, ordered
\* table or edges are computed or returned.
C16_TooFewItemsFails ==
    TooFewToCluster =>
        /\ pc \in {"hierarchical", "linkage", "done"}
        /\ pc # "done" => result = NoResult
        /\ pc = "done" => result = Raised("ValueError")
        /\ row_denD = Unset /\ col_denD = Unset /\ edges = NoEdges

\* C16 witness: the call with a single column to cluster has failed.
C16_Witness ==
    /\ pc = "done"
    /\ args.cluster_cols /\ ~args.cluster_rows /\ args.return_clusters
    /\ NCols(data) = 1 /\ NRows(data) = 2
    /\ result.status = "raised"

-----------------------------------------------------------------------------
(* A caller's session: calls of correlation, pca, volcano and hierarchical, *)
(* one after another, on the one table the caller owns.                     *)
(*                                                                         *)
(* Every operation is one step.  The parameter df of an operation names    *)
(* the caller's table until the name is bound to another object; a frame   *)
(* keeps the table df names, the caller's table and whether the two are    *)
(* different objects, so that an assignment into df is seen in the         *)
(* caller's table exactly when Python would show it there.  scipy's and    *)
(* utils' functions are functions of their input: asked again for the same *)
(* input they give what they gave before.                                  *)

MaxCalls == 3

\* The parameter df on entry: the caller's own object.
Passed(t) == [df |-> t, caller |-> t, own |-> FALSE]

\* An assignment that leaves df naming what it named.
NotCopied(fr) == fr

\* df = df.copy() (analysis.py lines 37 and 69, visualize.py lines 472 and
\* 1220): df names a new object with the same content.
Copied(fr) == [fr EXCEPT !.own = TRUE]

\* df[...] = v: the object df names is changed in place.
Written(fr, t) ==
    [df |-> t, caller |-> IF fr.own THEN fr.caller ELSE t, own |-> fr.own]

\* df = <expression>: df names the new object the expression made.
Rebound(fr, t) == [df |-> t, caller |-> fr.caller, own |-> TRUE]

\* What a library function gives for the input x, asked is what it was
\* asked before: the same as before for an x it has seen, else any of outs.
Lib(asked, x, outs) ==
    IF \E e \in asked : e[1] = x
    THEN {e[2] : e \in {d \in asked : d[1] = x}}
    ELSE outs

\* sch's palette before any call of set_link_color_palette.
DefaultPalette == <<"C1", "C2">>

\* The palette the call found, whatever line 1245 made of it.
PaletteFound(found) == found

\* Line 1245, sch.set_link_color_palette(['black']), comes before the
\* dendrograms of lines 1263 and 1271: they are drawn with this palette,
\* whatever palette the call found.
PaletteAtDendrogram(found) == <<"black">>

\* color_threshold=np.inf: every link is below the threshold and takes the
\* first colour of the palette.
LinkColor(pal) == pal[1]

\* Lines 1222-1227: (dfc - median) / std along an axis, kept by name: a cell
\* is known by the axis, its value and the cells it was scored with.
ZScored(t, z_score) ==
    Frame(t.index, t.columns,
          [r \in 1..NRows(t) |-> [c \in 1..NCols(t) |->
              <<"z_score", z_score, t.values[r][c],
                IF z_score = Num(0) THEN [i \in 1..NRows(t) |-> t.values[i][c]]
                ELSE t.values[r]>>]])

\* Lines 1231-1232: dfc[np.isinf(dfc)] = 0; dfc[np.isnan(dfc)] = 0.  The
\* score of a missing cell is NaN.
Finite(t) ==
    Frame(t.index, t.columns,
          [r \in 1..NRows(t) |-> [c \in 1..NCols(t) |->
              LET v == t.values[r][c]
              IN  IF IsNaN(v) \/ (Len(v) = 4 /\ IsNaN(v[3])) THEN Num(0)
                  ELSE v]])

\* The caller's tables: 2 features by one sample of group A and one of B,
\* complete or with a missing cell.
SessionRows == {<<Num(2), Num(1)>>, <<Num(2), NaN>>}

SessionTables ==
    {Frame(<<"f1", "f2">>, <<<<"A", 1>>, <<"B", 1>>>>,
           <<<<Num(1), Num(2)>>, r2>>) : r2 \in SessionRows}

\* The p-values and q-values of a session: missing, or 1/2.
SessionPVals == {NaN, Num(1)}

CorrelationCalls == [op : {"correlation"}, rowvar : {FALSE}]

AnalysisPcaCalls ==
    [op : {"pca"}, n_components : {2}, mean_center : BOOLEAN]

SessionVolcanoCalls ==
    [op : {"volcano"}, a : {"A"}, b : {"B"}, fdr : {1}, threshold : {0},
     minimum_sample_n : {0}, estimate_qvalues : BOOLEAN, s0 : {0},
     is_log2 : {TRUE}, fillna : {NaN, Num(1)}]

HierarchicalCalls ==
    [op : {"hierarchical"}, cluster_cols : {TRUE}, cluster_rows : {FALSE},
     n_col_clusters : {0}, z_score : {NaN, Num(0)}]

\* The calls made so far: each with the table it was given and what it
\* gave, and whether the same call on the same table gave the same again.
Calls(h) == Cardinality(h) + Cardinality({e \in h : e.again})

Remember(h, call, input, output) ==
    LET seen == {e \in h : /\ e.call = call
                           /\ e.input = input
                           /\ e.output = output}
    IN  IF seen = {}
        THEN h \cup {[call |-> call, input |-> input, output |-> output,
                      again |-> FALSE]}
        ELSE (h \ seen) \cup {[e EXCEPT !.again = TRUE] : e \in seen}

InitSession ==
    /\ data \in SessionTables
    /\ args = Unset /\ inner = Unset
    /\ pc = "caller"
    /\ df = Unset
    /\ dr = Unset /\ ginv = Unset /\ p = Unset /\ s0x = Unset
    /\ FILTER_IN = Unset
    /\ warned = FALSE
    /\ scores = Unset /\ weights = Unset /\ cdf = Unset
    /\ row_clusters = Unset /\ col_clusters = Unset
    /\ row_denD = Unset /\ col_denD = Unset /\ opt = Unset /\ edges = Unset
    /\ palette = DefaultPalette
    /\ history = {}
    /\ lib = [ttest |-> {}, qvalues |-> {}, linkage |-> {}]
    /\ mask = Unset /\ dft = Unset /\ levels = Unset /\ idx = Unset
    /\ result = NoResult

session_others ==
    <<args, inner, pc, df, volcano_vars, pca_vars, cdf, hier_vars,
      filter_vars, result>>

\* analysis.correlation, lines 37-44.
SessionCorrelation ==
    /\ Calls(history) < MaxCalls
    /\ \E call \in CorrelationCalls :
          LET fr  == Copied(Passed(data))
              out == [status |-> "returned",
                      cdf |-> Frame(fr.df.columns, fr.df.columns,
                                    Unmasked(MaCorrcoef(fr.df)))]
          IN  /\ history' = Remember(history, call, data, out)
              /\ data' = fr.caller
    /\ UNCHANGED <<palette, lib, session_others>>

\* analysis.pca, lines 69-89.
SessionPca ==
    /\ Calls(history) < MaxCalls
    /\ \E call \in AnalysisPcaCalls :
          LET fr0    == Copied(Passed(data))
              fr1    == Written(fr0, ZeroFilled(fr0.df))
              fr2    == IF call.mean_center
                        THEN Rebound(fr1, MeanCentered(fr1.df))
                        ELSE fr1
              fitted == IF call.mean_center THEN fr2.df
                        ELSE TimesRows(fr2.df)
              out    == [status |-> "returned",
                         scores |-> Scores(fitted, call.n_components),
                         weights |-> Weights(fitted, call.n_components)]
          IN  /\ history' = Remember(history, call, data, out)
              /\ data' = fr2.caller
    /\ UNCHANGED <<palette, lib, session_others>>

\* visualize.volcano, lines 472-603.
SessionVolcano ==
    /\ Calls(history) < MaxCalls
    /\ \E call \in SessionVolcanoCalls :
          LET fr0 == Copied(Passed(data))
              fr1 == IF IsNaN(call.fillna) \/ call.fillna = Num(0) THEN fr0
                     ELSE Rebound(fr0, FillNa(fr0.df, call.fillna))
              x   == EffectSizes(fr1.df, call)
              inv == TooFew(fr1.df, call)
          IN  \E praw \in Lib(lib.ttest, fr1.df,
                              [1..NRows(fr1.df) -> SessionPVals]) :
                LET p0 == MaskP(praw, inv)
                IN  \E p1 \in IF call.estimate_qvalues
                              THEN Lib(lib.qvalues, p0,
                                       QValues(p0) \cap
                                           [DOMAIN p0 -> SessionPVals])
                              ELSE {p0} :
                      /\ history' = Remember(history, call, data,
                                             Classified(x, p1, call))
                      /\ lib' = [lib EXCEPT
                                   !.ttest = @ \cup {<<fr1.df, praw>>},
                                   !.qvalues =
                                       IF call.estimate_qvalues
                                       THEN @ \cup {<<p0, p1>>} ELSE @]
                      /\ data' = fr1.caller
    /\ UNCHANGED <<palette, session_others>>

\* visualize.hierarchical, lines 1220-1335, for a call that clusters the
\* columns and asks for no number of clusters; z_score = NaN is
\* z_score=None.
SessionHierarchical ==
    /\ Calls(history) < MaxCalls
    /\ \E call \in HierarchicalCalls :
          LET fr0 == Copied(Passed(data))
              fr1 == IF IsNaN(call.z_score) THEN fr0
                     ELSE Rebound(fr0, ZScored(fr0.df, call.z_score))
              fr2 == Written(fr1, Finite(fr1.df))
              pal == PaletteAtDendrogram(palette)
          IN  \E Z \in Lib(lib.linkage, fr2.df, Linkages(NCols(fr2.df))) :
                /\ history' =
                      Remember(history, call, data,
                               [status |-> "returned",
                                fig |-> [link_color |-> LinkColor(pal)],
                                table |-> Iloc(fr2.caller,
                                               Range(NRows(fr2.caller)),
                                               Leaves(Z)),
                                edges |-> NoEdges])
                /\ lib' = [lib EXCEPT !.linkage = @ \cup {<<fr2.df, Z>>}]
                /\ palette' = <<"black">>
                /\ data' = fr2.caller
    /\ UNCHANGED session_others

NextSession ==
    \/ SessionCorrelation
    \/ SessionPca
    \/ SessionVolcano
    \/ SessionHierarchical

SpecSession == InitSession /\ [][NextSession]_vars

-----------------------------------------------------------------------------
(* Properties of a caller's session *)

HasMissing(t) ==
    \E r \in 1..NRows(t) : \E c \in 1..NCols(t) : IsNaN(t.values[r][c])

\* C17: none of correlation, pca, volcano and hierarchical changes the
\* caller's table: over any sequence of calls every cell and label of it
\* stays what it was, so every call is given the same table.
C17_CallerTableUnchanged ==
    /\ [][data' = data]_vars
    /\ [](\A e \in history : e.input = data)

\* C17 witness: a table with a missing cell has been through a pca with
\* mean_center, a volcano with fillna and a hierarchical without z-scores,
\* each of which fills or shifts its working table.
C17_Witness ==
    /\ HasMissing(data)
    /\ \E e \in history : e.call.op = "pca" /\ e.call.mean_center
    /\ \E e \in history : e.call.op = "volcano" /\ ~IsNaN(e.call.fillna)
    /\ \E e \in history : e.call.op = "hierarchical" /\ IsNaN(e.call.z_score)

-----------------------------------------------------------------------------
(* filters.minimum_valid_values_in_any_group and filters.search            *)

\* A table whose column index has named levels.
GroupedFrame(index, names, columns, values) ==
    [index |-> index, names |-> names, columns |-> columns,
     values |-> values]

\* df.iloc[mask]: the rows whose mask entry is True, in the table's order.
IlocMask(t, m) ==
    LET keep == SelectSeq(Idx(NRows(t)), LAMBDA r : m[r])
    IN  [t EXCEPT !.index = [k \in 1..Len(keep) |-> t.index[keep[k]]],
                  !.values = [k \in 1..Len(keep) |-> t.values[keep[k]]]]

\* Lines 59-61: levels=None becomes the position of the 'Group' level.
\* levels = NaN is levels=None; positions count from 0.
DefaultLevels(t, lv) ==
    IF IsNaN(lv) /\ \E k \in 1..Len(t.names) : t.names[k] = "Group"
    THEN <<(CHOOSE k \in 1..Len(t.names) : t.names[k] = "Group") - 1>>
    ELSE lv

\* The invalid argument: its value, and whether it is the object np.nan
\* (math.nan and float('nan') are NaN without being that object).
Marker(value, is_np_nan) == [value |-> value, is_np_nan |-> is_np_nan]

\* Lines 64-67, one cell of dfx: ~np.isnan(df) when `invalid is np.nan`,
\* else df != invalid, which is True for a NaN on either side.
IsValid(cell, invalid) ==
    IF invalid.is_np_nan THEN ~IsNaN(cell)
    ELSE IsNaN(cell) \/ IsNaN(invalid.value) \/ cell # invalid.value

\* The labels of a column at the levels lv.
LevelKey(label, lv) == [k \in 1..Len(lv) |-> label[lv[k] + 1]]

\* Line 69, row r of dfc: the number of valid cells in every group of
\* columns that share their labels at the levels lv.
GroupCounts(t, r, lv, invalid) ==
    {Cardinality({j \in 1..NCols(t) :
                     /\ LevelKey(t.columns[j], lv) = key
                     /\ IsValid(t.values[r][j], invalid)}) :
        key \in {LevelKey(t.columns[j], lv) : j \in 1..NCols(t)}}

\* Lines 71-73: dfm = dfc.max(axis=1) >= n.
RowMask(t, lv, n, invalid) ==
    [r \in 1..NRows(t) |-> \E c \in GroupCounts(t, r, lv, invalid) : c >= n]

\* Two groups of two replicates, the 'Group' level first or second.
FilterColumns(names) ==
    LET group == <<"A", "A", "B", "B">>
        rep   == <<"r1", "r2", "r1", "r2">>
    IN  [j \in 1..4 |-> IF names[1] = "Group" THEN <<group[j], rep[j]>>
                        ELSE <<rep[j], group[j]>>]

FilterCells == {NaN, Num(0), Num(1)}

\* Two-row tables: any first row, and a second row that is complete, all
\* zero or all missing.
FilterTables ==
    {GroupedFrame(<<"f1", "f2">>, names, FilterColumns(names), <<r1, r2>>) :
        names \in {<<"Group", "Replicate">>, <<"Replicate", "Group">>},
        r1 \in [1..4 -> FilterCells],
        r2 \in {[j \in 1..4 |-> c] : c \in FilterCells}}

Markers == {Marker(NaN, TRUE), Marker(NaN, FALSE), Marker(Num(0), FALSE)}

MinimumValidCalls ==
    [data : FilterTables,
     args : [op : {"minimum_valid_values_in_any_group"},
             levels : {NaN, <<0>>, <<0, 1>>}, n : 0..MaxMinN,
             invalid : Markers]]

\* A text cell of a table: the text is a sequence of characters.
Text(chars) == <<chars>>

\* str(l): the text of a text cell; 'nan' for a missing one.
Str(cell) == IF IsNaN(cell) THEN <<"n", "a", "n">> ELSE cell[1]

\* match in s: match is a run of consecutive characters of s.
In(match, str) ==
    \E k \in 0..(Len(str) - Len(match)) :
        SubSeq(str, k + 1, k + Len(match)) = match

\* A table of annotations with a named index.
NamedFrame(index_name, index, columns, values) ==
    [index_name |-> index_name, index |-> index, columns |-> columns,
     values |-> values]

\* df.reset_index(): the index becomes the first column, under its name.
ResetIndex(t) ==
    Frame(Idx(NRows(t)), <<t.index_name>> \o t.columns,
          [r \in 1..NRows(t) |-> <<t.index[r]>> \o t.values[r]])

\* dft[i].values
ColumnNamed(t, name) ==
    LET c == CHOOSE j \in 1..NCols(t) : t.columns[j] = name
    IN  [r \in 1..NRows(t) |-> t.values[r][c]]

HasColumn(t, name) == \E j \in 1..NCols(t) : t.columns[j] = name

\* Line 96: np.array([match in str(l) for l in dft[i].values])
Matches(t, name, match) ==
    [r \in 1..NRows(t) |-> In(match, Str(ColumnNamed(t, name)[r]))]

\* Line 93: the names the loop visits.
SearchIdx == <<"Proteins", "Protein names", "Gene names">>

SearchCells == {NaN, Text(<<"a">>), Text(<<"n", "a">>)}

\* Two-row tables with the index named 'Proteins' or 'id' and the columns
\* 'Gene names' and 'Description'; the second row has one text throughout.
SearchTables ==
    {NamedFrame(name, <<l1, l2>>, <<"Gene names", "Description">>,
                <<<<g1, d1>>, <<l2, l2>>>>) :
        name \in {"Proteins", "id"},
        l1 \in SearchCells, g1 \in SearchCells, d1 \in SearchCells,
        l2 \in SearchCells}

SearchCalls ==
    [data : SearchTables,
     args : [op : {"search"},
             match : {<<"a">>, <<"n">>, <<"n", "a">>},
             columns : {SearchIdx, <<"Gene names">>, <<"Description">>}]]

InitFilters ==
    /\ \E c \in MinimumValidCalls \cup SearchCalls :
          data = c.data /\ args = c.args
    /\ inner = Unset
    /\ pc = args.op
    /\ df = Unset
    /\ dr = Unset /\ ginv = Unset /\ p = Unset /\ s0x = Unset
    /\ FILTER_IN = Unset
    /\ warned = FALSE
    /\ scores = Unset /\ weights = Unset /\ cdf = Unset
    /\ row_clusters = Unset /\ col_clusters = Unset
    /\ row_denD = Unset /\ col_denD = Unset /\ opt = Unset /\ edges = Unset
    /\ palette = Unset /\ history = Unset /\ lib = Unset
    /\ mask = Unset /\ dft = Unset /\ levels = Unset /\ idx = Unset
    /\ result = NoResult

filter_others ==
    <<data, args, inner, volcano_vars, pca_vars, cdf, hier_vars,
      session_vars>>

\* minimum_valid_values_in_any_group, lines 57-61.
MinimumValidCopy ==
    /\ pc = "minimum_valid_values_in_any_group"
    /\ df' = data
    /\ levels' = DefaultLevels(data, args.levels)
    /\ pc' = "count"
    /\ UNCHANGED <<filter_others, mask, dft, idx, result>>

\* Lines 64-73.
MinimumValidMask ==
    /\ pc = "count"
    /\ mask' = RowMask(df, levels, args.n, args.invalid)
    /\ pc' = "iloc"
    /\ UNCHANGED <<filter_others, df, dft, levels, idx, result>>

\* Line 75.
MinimumValidReturn ==
    /\ pc = "iloc"
    /\ result' = [status |-> "returned", df |-> IlocMask(df, mask)]
    /\ pc' = "done"
    /\ UNCHANGED <<filter_others, df, filter_vars>>

\* search, lines 89-93.
SearchCopy ==
    /\ pc = "search"
    /\ df' = data
    /\ dft' = ResetIndex(data)
    /\ mask' = [r \in 1..NRows(data) |-> FALSE]
    /\ idx' = SearchIdx
    /\ pc' = "for"
    /\ UNCHANGED <<filter_others, levels, result>>

\* Lines 94-96: one pass of the loop.
SearchLoop ==
    /\ pc = "for"
    /\ idx # <<>>
    /\ mask' = IF HasColumn(dft, Head(idx))
               THEN [r \in DOMAIN mask |->
                        mask[r] \/ Matches(dft, Head(idx), args.match)[r]]
               ELSE mask
    /\ idx' = Tail(idx)
    /\ UNCHANGED <<filter_others, pc, df, dft, levels, result>>

\* Line 98.
SearchReturn ==
    /\ pc = "for"
    /\ idx = <<>>
    /\ result' = [status |-> "returned", df |-> IlocMask(df, mask)]
    /\ pc' = "done"
    /\ UNCHANGED <<filter_others, df, filter_vars>>

NextFilters ==
    \/ MinimumValidCopy
    \/ MinimumValidMask
    \/ MinimumValidReturn
    \/ SearchCopy
    \/ SearchLoop
    \/ SearchReturn

SpecFilters == InitFilters /\ [][NextFilters]_vars

-----------------------------------------------------------------------------
(* Properties of the filters *)

\* The cell is not the invalid marker: not NaN for a NaN marker, not the
\* marker's number for a number.
NotTheMarker(cell, invalid) ==
    IF IsNaN(invalid.value) THEN ~IsNaN(cell) ELSE cell # invalid.value

\* Row r has a group of columns, grouped by the levels lv, with at least n
\* cells that are not the invalid marker.
HasValidGroup(r, lv) ==
    \E key \in {LevelKey(data.columns[j], lv) : j \in 1..NCols(data)} :
        Cardinality({j \in 1..NCols(data) :
                        /\ LevelKey(data.columns[j], lv) = key
                        /\ NotTheMarker(data.values[r][j], args.invalid)})
            >= args.n

MinimumValidReturned ==
    /\ pc = "done"
    /\ args.op = "minimum_valid_values_in_any_group"
    /\ result.status = "returned"

\* C19: minimum_valid_values_in_any_group returns exactly the rows of df, in
\* their order, that have at least n values other than the invalid marker
\* (NaN by default) in at least one group of columns, the groups taken at
\* the given levels.
C19_RowsWithAValidGroup ==
    MinimumValidReturned =>
        result.df = IlocMask(data, [r \in 1..NRows(data) |->
                                       HasValidGroup(r, levels)])

\* The same for a marker that is np.nan itself or a number.
RowsWithAValidGroupForUsualMarkers ==
    (MinimumValidReturned
        /\ (IsNaN(args.invalid.value) => args.invalid.is_np_nan)) =>
        result.df = IlocMask(data, [r \in 1..NRows(data) |->
                                       HasValidGroup(r, levels)])

SearchHasReturned ==
    pc = "done" /\ args.op = "search" /\ result.status = "returned"

\* C20: search returns exactly the rows of df, in their order, in which
\* match is a substring of the value in at least one of the columns named
\* in the columns argument.
C20_SearchesGivenColumns ==
    SearchHasReturned =>
        result.df =
            IlocMask(data,
                     [r \in 1..NRows(data) |->
                         \E k \in 1..Len(args.columns) :
                             /\ HasColumn(dft, args.columns[k])
                             /\ Matches(dft, args.columns[k], args.match)[r]])

\* What search does: it looks in 'Proteins', 'Protein names' and 'Gene
\* names' whatever the columns argument is.
SearchesFixedColumns ==
    SearchHasReturned =>
        result.df =
            IlocMask(data,
                     [r \in 1..NRows(data) |->
                         \E k \in 1..Len(SearchIdx) :
                             /\ HasColumn(dft, SearchIdx[k])
                             /\ Matches(dft, SearchIdx[k], args.match)[r]])

-----------------------------------------------------------------------------
(* visualize.hierarchical_match *)

\* The longest key hierarchical_match is called with.
MaxKeyLen == 3

\* Key elements: two hashable labels and an unhashable one (a list).
Hashable == {"a", "b"}

Elements == Hashable \cup {"[]"}

\* A dict key or a lookup key: a bare element, or a tuple of elements.
Bare(x) == [tuple |-> FALSE, items |-> <<x>>]

TupleOf(xs) == [tuple |-> TRUE, items |-> xs]

SeqsUpTo(S, n) == UNION {[1..m -> S] : m \in 0..n}

\* The keys a dict of the model may hold: the bare labels, and the tuples
\* ("a",), ("a", "b"), ("a", "b", "b"), ...
DictKeys ==
    {Bare(x) : x \in Hashable}
        \cup {TupleOf([j \in 1..m |-> IF j = 1 THEN "a" ELSE "b"]) :
                 m \in 1..MaxKeyLen}

\* d: None, or a dict; the value stored under a key names the key.
NoDict == [none |-> TRUE, keys |-> {}]

Dict(keys) == [none |-> FALSE, keys |-> keys]

Stored(key) == [under |-> key.tuple, of |-> key.items]

DefaultValues == {[under |-> FALSE, of |-> <<None>>],
                  [under |-> FALSE, of |-> <<"default">>]}

\* k: a list, a tuple, or anything else (one element).
MatchKeys ==
    [kind : {"list", "tuple"}, items : SeqsUpTo(Elements, MaxKeyLen)]
        \cup [kind : {"scalar"}, items : {<<x>> : x \in Elements}]

MatchCalls ==
    [data : {NoDict} \cup {Dict(keys) : keys \in SUBSET DictKeys},
     args : [k : MatchKeys, default : DefaultValues]]

\* Lines 157-160: key = tuple(k[0:len(k)-n]), a single element bare.
PrefixKey(k, len) ==
    IF len = 1 THEN Bare(k[1]) ELSE TupleOf(SubSeq(k, 1, len))

\* d[key]: TypeError for an unhashable key, KeyError for a missing one.
LookupError(d, key) ==
    IF \E j \in DOMAIN key.items : key.items[j] \notin Hashable
    THEN "TypeError"
    ELSE IF key \notin d.keys THEN "KeyError"
    ELSE "none"

\* A handler for KeyError alone.
ExceptKeyError(error) == error = "KeyError"

\* Lines 164-165: the bare except takes every error.
Excepted(error) == TRUE

InitMatch ==
    /\ \E c \in MatchCalls : data = c.data /\ args = c.args
    /\ inner = Unset
    /\ pc = "hierarchical_match"
    /\ result = NoResult
    /\ df = Unset
    /\ dr = Unset /\ ginv = Unset /\ p = Unset /\ s0x = Unset
    /\ FILTER_IN = Unset
    /\ warned = FALSE
    /\ scores = Unset /\ weights = Unset /\ cdf = Unset
    /\ row_clusters = Unset /\ col_clusters = Unset
    /\ row_denD = Unset /\ col_denD = Unset /\ opt = Unset /\ edges = Unset
    /\ palette = Unset /\ history = Unset /\ lib = Unset
    /\ mask = Unset /\ dft = Unset /\ levels = Unset /\ idx = Unset

match_others ==
    <<data, args, df, volcano_vars, pca_vars, cdf, hier_vars, session_vars,
      filter_vars>>

\* Lines 151-155: d None returns default; a k that is neither a list nor a
\* tuple becomes [k].
MatchEnter ==
    /\ pc = "hierarchical_match"
    /\ IF data.none
       THEN /\ result' = [status |-> "returned", value |-> args.default]
            /\ pc' = "done"
            /\ inner' = inner
       ELSE /\ inner' = [k |-> args.k.items, n |-> 0]
            /\ pc' = "for"
            /\ result' = result
    /\ UNCHANGED match_others

\* Lines 157-167: one pass of the for loop.
MatchTry ==
    /\ pc = "for"
    /\ inner.n < Len(inner.k)
    /\ LET key   == PrefixKey(inner.k, Len(inner.k) - inner.n)
           error == LookupError(data, key)
       IN  IF error = "none"
           THEN /\ result' = [status |-> "returned", value |-> Stored(key)]
                /\ pc' = "done"
                /\ inner' = inner
           ELSE IF Excepted(error)
           THEN /\ inner' = [inner EXCEPT !.n = inner.n + 1]
                /\ pc' = pc
                /\ result' = result
           ELSE /\ result' = Raised(error)
                /\ pc' = "done"
                /\ inner' = inner
    /\ UNCHANGED match_others

\* Line 168.
MatchDefault ==
    /\ pc = "for"
    /\ inner.n >= Len(inner.k)
    /\ result' = [status |-> "returned", value |-> args.default]
    /\ pc' = "done"
    /\ UNCHANGED <<inner, match_others>>

NextMatch ==
    \/ MatchEnter
    \/ MatchTry
    \/ MatchDefault

SpecMatch == InitMatch /\ [][NextMatch]_vars

-----------------------------------------------------------------------------
(* Properties of visualize.hierarchical_match *)

\* The lengths of the prefixes of k that are keys of d, a one-element prefix
\* being the bare element.
PrefixHits ==
    {len \in 1..Len(args.k.items) :
        LET key == PrefixKey(args.k.items, len)
        IN  /\ \A j \in DOMAIN key.items : key.items[j] \in Hashable
            /\ key \in data.keys}

MatchDone == pc = "done"

\* C27: hierarchical_match(d, k, default) tries the prefixes of k from the
\* longest to the shortest (a one-element prefix as the bare element, not a
\* 1-tuple) and returns the value stored under the longest prefix that is a
\* key of d; it returns default when d is None or no prefix of k is a key of
\* d, and it never raises.
C27_LongestPrefixOrDefault ==
    /\ pc = "for" =>
          /\ inner.n <= Len(inner.k)
          /\ \A len \in PrefixHits : len <= Len(inner.k) - inner.n
    /\ MatchDone =>
          /\ result.status = "returned"
          /\ result.value =
                IF data.none \/ PrefixHits = {} THEN args.default
                ELSE Stored(PrefixKey(args.k.items, SetMax(PrefixHits)))

\* C27 witness: two prefixes of k are keys of d, the longer one is not the
\* whole of k, the whole of k cannot be hashed, and the value under the
\* longer one has been returned; d also holds the 1-tuple of k's first
\* element, which is not looked up.
C27_Witness ==
    /\ MatchDone
    /\ ~data.none
    /\ Cardinality(PrefixHits) >= 2
    /\ SetMax(PrefixHits) < Len(args.k.items)
    /\ LookupError(data, TupleOf(args.k.items)) = "TypeError"
    /\ TupleOf(<<args.k.items[1]>>) \in data.keys
    /\ result.status = "returned"
    /\ result.value = Stored(PrefixKey(args.k.items, SetMax(PrefixHits)))

=============================================================================
